---- MODULE Spec2Model ----
(***************************************************************************)
(* State-machine model of the drawing workspace: CanvasWorkspace (live     *)
(* stroke list, per-page history buffers, fade timers), the tool classes   *)
(* (highlighter/pen, eraser, selector), usePointerHandlers (pointer cache, *)
(* pinch state, viewport), useViewportZoom and usePageNavigation.          *)
(*                                                                         *)
(* One action is one event handler together with the React render and the  *)
(* effects that follow it.  Optional values are sequences of length 0 or 1.*)
(* Page indices are 1-based (index i here is index i-1 in the code).       *)
(* Scales are in hundredths (100 is scale 1.0); offsets and client         *)
(* coordinates are whole pixels; divisions round down.                     *)
(***************************************************************************)
EXTENDS Integers, Sequences, FiniteSets, TLC

\* ---------------------------------------------------------------- bounds
MaxStrokeIds == 5      \* stroke ids 1..MaxStrokeIds can ever be created
MaxPageIds == 3        \* page ids 1..MaxPageIds can ever be created
MaxHist == 2           \* cap on the length of one history / future stack
MaxPoints == 3         \* cap on the points of a stroke or lasso path
MaxViewOps == 2        \* cap on the viewport-changing operations of a run
MaxSignatures == 2     \* distinct non-empty signatures of the notes list
MaxInFlight == 2       \* cap on the persistNotes calls in progress

\* ------------------------------------------------------ program constants
MIN_SCALE == 60
MAX_SCALE == 350
SNAP_SCALE == 105
ERASER_SIZE == 26
MIN_FINGER_DISTANCE == 100
ZOOM_THRESHOLD == 12
PAN_THRESHOLD == 8
DEADZONE == 5
PAN_MIN_MAGNITUDE == 20
MIN_POINT_DISTANCE == 2
INTERPOLATE_DISTANCE == 5
RECT_ORIGIN == 0

\* ------------------------------------------------------------- utilities
Max2(a, b) == IF a >= b THEN a ELSE b
Min2(a, b) == IF a <= b THEN a ELSE b
Abs(a) == IF a < 0 THEN -a ELSE a

\* Math.sqrt, rounded down (Newton iteration from above)
RECURSIVE IsqrtFrom(_, _)
IsqrtFrom(n, x) ==
  LET y == (x + n \div x) \div 2 IN IF y >= x THEN x ELSE IsqrtFrom(n, y)
Isqrt(n) == IF n = 0 THEN 0 ELSE IsqrtFrom(n, n)

SeqToSet(s) == {s[i] : i \in DOMAIN s}

RECURSIVE GCD(_, _)
GCD(a, b) == IF b = 0 THEN a ELSE GCD(b, a % b)

RECURSIVE FilterSeq(_, _)
\* Array.prototype.filter for a keep-set of indices given as a predicate set
FilterSeq(s, keep) ==
  IF s = <<>> THEN <<>>
  ELSE IF Head(s) \in keep THEN <<Head(s)>> \o FilterSeq(Tail(s), keep)
       ELSE FilterSeq(Tail(s), keep)

Front(s) == SubSeq(s, 1, Len(s) - 1)
Last(s) == s[Len(s)]

\* clamp(value, min, max) of canvasGeometry
clampNoMax(value, min, max) == Max2(min, value)
clamp(value, min, max) == Max2(min, Min2(max, value))

\* squared Euclidean distance (distanceBetween without the square root)
Dist2(a, b) == (a[1] - b[1]) * (a[1] - b[1]) + (a[2] - b[2]) * (a[2] - b[2])
distanceBetween(a, b) == Isqrt(Dist2(a, b))

\* ---------------------------------------------------------- stroke model
StrokeIds(list) == {list[i].id : i \in DOMAIN list}

translateStrokeXOnly(stroke, delta) ==
  [stroke EXCEPT !.points = [i \in DOMAIN stroke.points |->
      <<stroke.points[i][1] + delta[1], stroke.points[i][2]>>]]
translateStroke(stroke, delta) ==
  [stroke EXCEPT !.points = [i \in DOMAIN stroke.points |->
      <<stroke.points[i][1] + delta[1], stroke.points[i][2] + delta[2]>>]]

\* cloneStrokes copies every stroke and its point array: the same value
cloneStrokes(list) == [i \in DOMAIN list |-> [list[i] EXCEPT !.points = [j \in DOMAIN list[i].points |-> list[i].points[j]]]]

RemoveIds(list, ids) == FilterSeq(list, {s \in SeqToSet(list) : s.id \notin ids})

EmptyBuffers == [history |-> <<>>, future |-> <<>>]

VARIABLES
  pages,             \* activeNote.pages: sequence of [id, strokes]
  noteIdx,           \* activeNote.currentPageIndex (1-based)
  currentPageIndex,  \* workspace state (1-based)
  strokes,           \* live stroke list (strokes state and strokesRef)
  hist,              \* pageHistoryRef: page id -> [history, future]
  mountPageId,       \* page id seen by the callbacks the tools captured at mount
  loadedPageId,      \* loadedPageIdRef
  tool,              \* active tool
  selection,         \* workspace selection state (option)
  selectionPath,     \* workspace selectionPath state
  currentStroke,     \* workspace currentStroke state (option)
  removedSession,    \* removedStrokeIdsRef of the workspace
  fading,            \* fadingStrokes (set of ids)
  fadeTimers,        \* fadeTimeoutsRef (ids with a pending timer)
  penCur,            \* PenTool.currentStroke (option)
  hlCur,             \* HighlighterTool.currentStroke (option)
  er,                \* EraserTool: [isErasing, removed]
  selTool,           \* SelectorTool: [selection (option), path]
  penPriority,       \* hasPenInput && isMobile
  down,              \* pointers physically down (environment)
  cache,             \* pointerCacheRef: sequence of [id, x, y] in insertion order
  pinch,             \* pinchStateRef (option)
  middlePan,         \* middlePanRef (option)
  raf,               \* pending animation-frame viewport update (option)
  viewport,          \* [scale, offsetX, offsetY]
  viewOps,           \* number of viewport-changing operations so far
  nextStrokeId,      \* next fresh stroke id
  nextPageId,        \* next fresh page id
  lastOp,            \* history: the last operation and its outcome
  chain,             \* history: stroke lists seen along a commit/undo/redo run
  chainPos,          \* history: position of the live list in chain
  erased,            \* history: ids hit by the eraser on this page and not restored
  restored,          \* history: ids an undo has brought back
  pinchMid2,         \* history: twice the true client midpoint at gesture start (option)
  midFixed,          \* history: the true midpoint has not moved in this gesture
  mounted,           \* the workspace component is mounted
  autoSaveTimer,     \* autoSaveTimeoutRef holds a pending timer
  saved,             \* stroke lists passed to onSave so far
  storeNotes,        \* notes store: snapshot.notes, as NullNotes or its signature
  lastPersistSignature, \* notes store: signature of the last completed persist
  persistTimeout,    \* notes store: the 400 ms debounce timer is pending
  inFlight,          \* notes store: signatures of the persistNotes calls in progress
  dbNotes            \* the notes object store of the database, as a signature

vars == <<pages, noteIdx, currentPageIndex, strokes, hist, mountPageId, loadedPageId,
          tool, selection, selectionPath, currentStroke, removedSession, fading,
          fadeTimers, penCur, hlCur, er, selTool, penPriority, down, cache, pinch,
          middlePan, raf, viewport, viewOps, nextStrokeId, nextPageId, lastOp,
          chain, chainPos, erased, restored, pinchMid2, midFixed, mounted,
          autoSaveTimer, saved, storeNotes, lastPersistSignature, persistTimeout,
          inFlight, dbNotes>>

noteVars == <<pages, noteIdx>>
pageVars == <<currentPageIndex, loadedPageId, mountPageId, nextPageId>>
toolVars == <<penCur, hlCur, er, selTool>>
selVars == <<selection, selectionPath>>
fadeVars == <<fading, fadeTimers>>
pointerVars == <<cache, pinch, middlePan, raf, pinchMid2, midFixed>>
\* the pointer refs other than the pending animation frame, which the cleanup of
\* the listener effect cancels whenever strokes, tool or viewport change
pointerRefs == <<cache, pinch, middlePan, pinchMid2, midFixed>>
viewVars == <<viewport, viewOps>>
lifeVars == <<mounted, autoSaveTimer, saved>>
storeVars == <<storeNotes, lastPersistSignature, persistTimeout, inFlight, dbNotes>>

\* the render that follows a handler of the mounted component: the effect on
\* [queueAutoSave, strokes, currentStroke] re-arms the debounced autosave timer
\* when the strokes, the stroke in progress, the note or the page index changed
AfterRender ==
  /\ mounted
  /\ mounted' = mounted
  /\ saved' = saved
  /\ UNCHANGED storeVars
  /\ autoSaveTimer' = (\/ autoSaveTimer
                       \/ strokes' # strokes
                       \/ currentStroke' # currentStroke
                       \/ pages' # pages
                       \/ currentPageIndex' # currentPageIndex)

PageIdSet == 1..MaxPageIds
Tools == {"pen", "highlighter", "eraser", "selector"}

\* the page the workspace shows
ActivePageId == pages[currentPageIndex].id

canUndo == Len(hist[ActivePageId].history) > 0
canRedo == Len(hist[ActivePageId].future) > 0

Stroke(id, t, pts) == [id |-> id, tool |-> t, color |-> "c0", points |-> pts]

envVars == <<penPriority, down>>
ghostVars == <<chain, chainPos, erased, restored>>

\* ------------------------------------------------------ pointer plumbing
Pointers == {1, 2, 3, 4, 5}
PointerType(pid) == IF pid \in {1, 2, 3} THEN "touch" ELSE IF pid = 4 THEN "mouse" ELSE "pen"

\* Map.set keeps the position of an existing key and appends a new one
CacheSet(c, pid, p) ==
  IF \E i \in DOMAIN c : c[i].id = pid
  THEN [i \in DOMAIN c |-> IF c[i].id = pid THEN [id |-> pid, x |-> p[1], y |-> p[2]] ELSE c[i]]
  ELSE Append(c, [id |-> pid, x |-> p[1], y |-> p[2]])
CacheDelete(c, pid) == FilterSeq(c, {e \in SeqToSet(c) : e.id # pid})
CacheHas(c, pid) == \E i \in DOMAIN c : c[i].id = pid
CacheGet(c, pid) == LET i == CHOOSE j \in DOMAIN c : c[j].id = pid IN <<c[i].x, c[i].y>>

\* canvas.getBoundingClientRect(): the canvas sits in the transformed container
RectLeft == RECT_ORIGIN + viewport.offsetX
RectTop == RECT_ORIGIN + viewport.offsetY

toCanvasPoint(c) ==
  <<((c[1] - RectLeft) * 100) \div viewport.scale,
    ((c[2] - RectTop) * 100) \div viewport.scale>>

\* the early returns of the three pointer handlers
IgnoredNever(pid) == FALSE
Ignored(pid) == penPriority /\ PointerType(pid) \notin {"touch", "pen"}
IsTouch(pid) == PointerType(pid) = "touch"
MiddlePanOf(pid) == middlePan # <<>> /\ middlePan[1].pointerId = pid

\* hasSignificantMovement of handlePointerMove
Significant(pid, c) ==
  \/ ~CacheHas(cache, pid)
  \/ Abs(CacheGet(cache, pid)[1] - c[1]) > 1
  \/ Abs(CacheGet(cache, pid)[2] - c[2]) > 1

\* the pointer-down (button 0), pointer-move and pointer-up events that get as
\* far as the tool dispatch
ReachesToolDown(pid, c) ==
  /\ ~Ignored(pid)
  /\ IsTouch(pid) => (Len(CacheSet(cache, pid, c)) < 2 /\ ~penPriority)
ReachesToolMove(pid, c) ==
  /\ ~Ignored(pid)
  /\ ~MiddlePanOf(pid)
  /\ IsTouch(pid) => (Len(CacheSet(cache, pid, c)) < 2 /\ ~penPriority)
ReachesToolUp(pid) ==
  /\ ~Ignored(pid)
  /\ ~MiddlePanOf(pid)
  /\ IsTouch(pid) => ~penPriority

\* -------------------------------------------------------- fade bookkeeping
\* no cleanup of the marks when strokes leave the list
CleanFadingKeep(f, list) == f

\* the effect on [strokes]: ids that left the list lose their mark and timer
CleanFading(f, list) == f \cap StrokeIds(list)
CleanTimers(t, f, list) == t \ (f \ StrokeIds(list))

\* -------------------------------------------------------------- history
\* pushHistorySnapshot for the page id its closure sees
PushSnapshot(h, pageId, list) ==
  [h EXCEPT ![pageId] = [history |-> Append(@.history, cloneStrokes(list)), future |-> <<>>]]

\* the closure of the tool callbacks (created once at mount) pushes here
ToolPushTarget == mountPageId
\* the closures recreated on every render push here
FreshPushTarget == ActivePageId

CanPush(pageId) == Len(hist[pageId].history) < MaxHist

\* commitStroke as called by the pen and highlighter tools
CommitStroke(stroke) ==
  /\ CanPush(ToolPushTarget)
  /\ hist' = PushSnapshot(hist, ToolPushTarget, strokes)
  /\ strokes' = Append(strokes, stroke)
  /\ currentStroke' = <<>>
  /\ chain' = Append(SubSeq(chain, 1, chainPos), Append(strokes, stroke))
  /\ chainPos' = chainPos + 1
  /\ restored' = {}
  /\ erased' = erased
  /\ UNCHANGED fadeVars

\* ------------------------------------------------- pen / highlighter tool
NewStrokeEmpty(t, point) == Stroke(nextStrokeId, t, <<>>)
NewStroke(t, point) == Stroke(nextStrokeId, t, <<point>>)

\* points appended by handlePointerMove (empty when the move is dropped)
MovePoints(cur, point) ==
  LET lastPoint == Last(cur.points)
      d2 == Dist2(lastPoint, point)
  IN IF d2 < MIN_POINT_DISTANCE * MIN_POINT_DISTANCE THEN <<>>
     ELSE IF d2 > INTERPOLATE_DISTANCE * INTERPOLATE_DISTANCE
          THEN << <<(lastPoint[1] + point[1]) \div 2, (lastPoint[2] + point[2]) \div 2>>, point >>
          ELSE <<point>>

DrawCur == IF tool = "pen" THEN penCur ELSE hlCur

\* handlePointerDown reaching the pen or the highlighter
DownDraw(pid, c) ==
  /\ pid \notin down
  /\ ReachesToolDown(pid, c)
  /\ tool \in {"pen", "highlighter"}
  /\ nextStrokeId <= MaxStrokeIds
  /\ down' = down \cup {pid}
  /\ cache' = CacheSet(cache, pid, c)
  /\ LET st == NewStroke(tool, toCanvasPoint(c)) IN
       /\ penCur' = IF tool = "pen" THEN <<st>> ELSE penCur
       /\ hlCur' = IF tool = "highlighter" THEN <<st>> ELSE hlCur
       /\ currentStroke' = <<st>>
  /\ nextStrokeId' = nextStrokeId + 1
  /\ lastOp' = "downDraw"
  /\ UNCHANGED <<noteVars, currentPageIndex, loadedPageId, mountPageId, nextPageId,
                 strokes, hist, tool, selVars, removedSession, fadeVars, er, selTool,
                 penPriority, pinch, middlePan, raf, pinchMid2, midFixed, viewVars, ghostVars>>
  /\ AfterRender

\* handlePointerMove reaching the pen or the highlighter
MoveDraw(pid, c) ==
  /\ ReachesToolMove(pid, c)
  /\ tool \in {"pen", "highlighter"}
  /\ cache' = CacheSet(cache, pid, c)
  /\ IF DrawCur = <<>> THEN UNCHANGED <<penCur, hlCur, currentStroke>>
     ELSE LET cur == DrawCur[1]
              add == MovePoints(cur, toCanvasPoint(c))
              nxt == [cur EXCEPT !.points = @ \o add]
          IN /\ Len(nxt.points) <= MaxPoints
             /\ penCur' = IF tool = "pen" THEN <<nxt>> ELSE penCur
             /\ hlCur' = IF tool = "highlighter" THEN <<nxt>> ELSE hlCur
             /\ currentStroke' = IF add = <<>> THEN currentStroke ELSE <<nxt>>
  /\ lastOp' = "moveDraw"
  /\ UNCHANGED <<noteVars, pageVars, strokes, hist, tool, selVars, removedSession,
                 fadeVars, er, selTool, envVars, pinch, middlePan, raf, pinchMid2,
                 midFixed, viewVars, nextStrokeId, ghostVars>>
  /\ AfterRender

\* the part of handlePointerUp before the tool dispatch
UpCache(pid) == CacheDelete(cache, pid)
\* a release that clears the gesture only when the cache is empty
UpClearsPinchWhenEmpty(pid) == Len(UpCache(pid)) < 1
UpClearsPinch(pid) == Len(UpCache(pid)) < 2

\* handlePointerUp reaching the pen or the highlighter (pointerup, pointercancel
\* and pointerleave all call it)
UpDraw(pid) ==
  /\ ReachesToolUp(pid)
  /\ tool \in {"pen", "highlighter"}
  /\ down' = down \ {pid}
  /\ cache' = UpCache(pid)
  /\ pinch' = IF UpClearsPinch(pid) THEN <<>> ELSE pinch
  /\ pinchMid2' = IF UpClearsPinch(pid) THEN <<>> ELSE pinchMid2
  /\ midFixed' = (UpClearsPinch(pid) \/ midFixed)
  /\ penCur' = IF tool = "pen" THEN <<>> ELSE penCur
  /\ hlCur' = IF tool = "highlighter" THEN <<>> ELSE hlCur
  /\ IF DrawCur # <<>> /\ Len(DrawCur[1].points) > 0
     THEN /\ CommitStroke(DrawCur[1])
          /\ lastOp' = "commit"
     ELSE /\ lastOp' = "upDraw"
          /\ UNCHANGED <<hist, strokes, currentStroke, fadeVars, ghostVars>>
  /\ UNCHANGED <<noteVars, pageVars, tool, selVars, removedSession, er, selTool,
                 penPriority, middlePan, viewVars, nextStrokeId>>
  /\ raf' = IF UpClearsPinch(pid) \/ lastOp' = "commit" THEN <<>> ELSE raf
  /\ AfterRender

\* ------------------------------------------------------------ eraser tool
\* the distance to the infinite line through start and end (no clamping of t)
WithinRadiusOfLine(point, start, end, scale) ==
  LET dx == end[1] - start[1]
      dy == end[2] - start[2]
      len2 == dx * dx + dy * dy
      dot == (point[1] - start[1]) * dx + (point[2] - start[2]) * dy
      g == GCD(scale, 100)
      rn == ERASER_SIZE * (100 \div g)
      rd == 2 * (scale \div g)
  IN IF len2 = 0 THEN Dist2(point, start) * rd * rd <= rn * rn
     ELSE (Dist2(point, start) * len2 - dot * dot) * rd * rd <= rn * rn * len2
\* distancePointToSegment(point, start, end) <= radius, with
\* radius = (eraserSize / 2) / viewportScale, compared without square roots
WithinRadius(point, start, end, scale) ==
  LET dx == end[1] - start[1]
      dy == end[2] - start[2]
      len2 == dx * dx + dy * dy
      dot == (point[1] - start[1]) * dx + (point[2] - start[2]) * dy
      g == GCD(scale, 100)
      rn == ERASER_SIZE * (100 \div g)       \* radius = rn / rd
      rd == 2 * (scale \div g)
  IN IF len2 = 0 THEN Dist2(point, start) * rd * rd <= rn * rn
     ELSE IF dot <= 0 THEN Dist2(point, start) * rd * rd <= rn * rn
     ELSE IF dot >= len2 THEN Dist2(point, end) * rd * rd <= rn * rn
     ELSE (Dist2(point, start) * len2 - dot * dot) * rd * rd <= rn * rn * len2

StrokeHit(point, stroke, scale) ==
  \/ \E i \in 1..(Len(stroke.points) - 1) :
        WithinRadius(point, stroke.points[i], stroke.points[i + 1], scale)
  \/ /\ Len(stroke.points) = 1
     /\ WithinRadius(point, stroke.points[1], stroke.points[1], scale)

\* EraserTool.getStrokesAtPoint
getStrokesAtPoint(point, list, scale, removedIds) ==
  {list[i].id : i \in {j \in DOMAIN list :
      /\ list[j].tool # "eraser"
      /\ list[j].id \notin removedIds
      /\ StrokeHit(point, list[j], scale)}}

\* handleEraserErase(removedIds) with scheduleStrokeRemoval, for the session set
\* the workspace holds when the callback runs
EraseNewIds(session, removedIds) == removedIds \ session
ErasePushes(session, removedIds) == EraseNewIds(session, removedIds) # {} /\ session = {}

handleEraserErase(session, removedIds) ==
  LET newIds == EraseNewIds(session, removedIds) IN
  IF newIds = {}
  THEN /\ removedSession' = session
       /\ UNCHANGED <<hist, fadeVars, ghostVars>>
  ELSE /\ IF ErasePushes(session, removedIds)
          THEN /\ CanPush(ToolPushTarget)
               /\ hist' = PushSnapshot(hist, ToolPushTarget, strokes)
          ELSE hist' = hist
       /\ removedSession' = session \cup newIds
       /\ fading' = fading \cup newIds
       /\ fadeTimers' = fadeTimers \cup (newIds \ fading)
       /\ erased' = erased \cup newIds
       /\ restored' = {}
       /\ chain' = <<strokes>>
       /\ chainPos' = 1

EraseOp(session, removedIds) ==
  IF EraseNewIds(session, removedIds) = {} THEN "eraseNone"
  ELSE IF ErasePushes(session, removedIds) THEN "eraseFirst" ELSE "eraseMore"

\* handlePointerDown reaching the eraser
DownEraser(pid, c) ==
  /\ pid \notin down
  /\ ReachesToolDown(pid, c)
  /\ tool = "eraser"
  /\ down' = down \cup {pid}
  /\ cache' = CacheSet(cache, pid, c)
  /\ selection' = <<>>
  /\ selectionPath' = <<>>
  /\ LET hits == getStrokesAtPoint(toCanvasPoint(c), strokes, viewport.scale, {}) IN
       /\ er' = [isErasing |-> TRUE, removed |-> hits]
       /\ handleEraserErase({}, hits)
       /\ lastOp' = EraseOp({}, hits)
  /\ UNCHANGED <<noteVars, pageVars, strokes, tool, currentStroke, penCur, hlCur, selTool,
                 penPriority, pinch, middlePan, raf, pinchMid2, midFixed, viewVars,
                 nextStrokeId>>
  /\ AfterRender

\* the test of EraserTool.handlePointerMove that decides whether onErase is called
ErasesOnMoveAlways(hits) == hits # {}
ErasesOnMove(hits) == er.isErasing /\ hits # {}

\* handlePointerMove reaching the eraser (a hover move only updates the preview)
MoveEraser(pid, c) ==
  /\ ReachesToolMove(pid, c)
  /\ tool = "eraser"
  /\ cache' = CacheSet(cache, pid, c)
  /\ LET hits == getStrokesAtPoint(toCanvasPoint(c), strokes, viewport.scale, er.removed) IN
       IF ErasesOnMove(hits)
       THEN /\ er' = [er EXCEPT !.removed = @ \cup hits]
            /\ handleEraserErase(removedSession, er.removed \cup hits)
            /\ lastOp' = EraseOp(removedSession, er.removed \cup hits)
       ELSE /\ lastOp' = "moveEraser"
            /\ UNCHANGED <<er, removedSession, hist, fadeVars, ghostVars>>
  /\ UNCHANGED <<noteVars, pageVars, strokes, tool, selVars, currentStroke, penCur, hlCur,
                 selTool, envVars, pinch, middlePan, raf, pinchMid2, midFixed, viewVars,
                 nextStrokeId>>
  /\ AfterRender

\* handlePointerUp reaching the eraser
UpEraser(pid) ==
  /\ ReachesToolUp(pid)
  /\ tool = "eraser"
  /\ down' = down \ {pid}
  /\ cache' = UpCache(pid)
  /\ pinch' = IF UpClearsPinch(pid) THEN <<>> ELSE pinch
  /\ raf' = IF UpClearsPinch(pid) THEN <<>> ELSE raf
  /\ pinchMid2' = IF UpClearsPinch(pid) THEN <<>> ELSE pinchMid2
  /\ midFixed' = (UpClearsPinch(pid) \/ midFixed)
  /\ er' = [isErasing |-> FALSE, removed |-> {}]
  /\ removedSession' = {}
  /\ lastOp' = "upEraser"
  /\ UNCHANGED <<noteVars, pageVars, strokes, hist, tool, selVars, currentStroke, fadeVars,
                 penCur, hlCur, selTool, penPriority, middlePan, viewVars,
                 nextStrokeId, ghostVars>>
  /\ AfterRender

\* the timer started by scheduleStrokeRemoval fires for id
FadeTimerFire(id) ==
  /\ id \in fadeTimers
  /\ strokes' = RemoveIds(strokes, {id})
  /\ fading' = CleanFading(fading \ {id}, strokes')
  /\ fadeTimers' = CleanTimers(fadeTimers \ {id}, fading \ {id}, strokes')
  /\ chain' = <<strokes'>>
  /\ chainPos' = 1
  /\ raf' = <<>>
  /\ lastOp' = "fadeTimer"
  /\ UNCHANGED <<noteVars, pageVars, hist, tool, selVars, currentStroke, removedSession,
                 toolVars, envVars, pointerRefs, viewVars, nextStrokeId, erased, restored>>
  /\ AfterRender

\* ---------------------------------------------------------- selector tool
\* the edge test with <= in place of <: a point on the edge counts as left of it
EdgeCrossesInclusive(point, pi, pj) ==
  /\ (pi[2] > point[2]) # (pj[2] > point[2])
  /\ LET d == pj[2] - pi[2]
         lhs == (point[1] - pi[1]) * d
         rhs == (pj[1] - pi[1]) * (point[2] - pi[2])
     IN IF d > 0 THEN lhs <= rhs ELSE lhs >= rhs

\* one edge test of the even-odd ray cast, without the division
EdgeCrosses(point, pi, pj) ==
  /\ (pi[2] > point[2]) # (pj[2] > point[2])
  /\ LET d == pj[2] - pi[2]
         lhs == (point[1] - pi[1]) * d
         rhs == (pj[1] - pi[1]) * (point[2] - pi[2])
     IN IF d > 0 THEN lhs < rhs ELSE lhs > rhs

isPointInPolygon(point, polygon) ==
  LET n == Len(polygon)
      crossings == {i \in 1..n :
                      EdgeCrosses(point, polygon[i], polygon[IF i = 1 THEN n ELSE i - 1])}
  IN Cardinality(crossings) % 2 = 1

SetMin(S) == CHOOSE m \in S : \A x \in S : m <= x
SetMax(S) == CHOOSE m \in S : \A x \in S : m >= x

\* a selection rule that asks for every point of the stroke to be inside
SelectedIdsWhole(list, path) ==
  {list[i].id : i \in {j \in DOMAIN list :
      /\ list[j].tool # "eraser"
      /\ \A k \in DOMAIN list[j].points : isPointInPolygon(list[j].points[k], path)}}

SelectedIds(list, path) ==
  {list[i].id : i \in {j \in DOMAIN list :
      /\ list[j].tool # "eraser"
      /\ \E k \in DOMAIN list[j].points : isPointInPolygon(list[j].points[k], path)}}

BoundingBox(list, ids) ==
  LET pts == UNION {SeqToSet(list[i].points) : i \in {j \in DOMAIN list : list[j].id \in ids}}
  IN [minX |-> SetMin({q[1] : q \in pts}), minY |-> SetMin({q[2] : q \in pts}),
      maxX |-> SetMax({q[1] : q \in pts}), maxY |-> SetMax({q[2] : q \in pts})]

OptDelta(sel) == IF sel.dragDelta = <<>> THEN <<0, 0>> ELSE sel.dragDelta[1]

\* a hit test that leaves the boundary of the box out
InsideSelectionOpen(sel, point) ==
  LET delta == OptDelta(sel) IN
  /\ point[1] > sel.boundingBox.minX + delta[1]
  /\ point[1] < sel.boundingBox.maxX + delta[1]
  /\ point[2] > sel.boundingBox.minY + delta[2]
  /\ point[2] < sel.boundingBox.maxY + delta[2]

\* the hit test of SelectorTool.handlePointerDown
InsideSelection(sel, point) ==
  LET delta == OptDelta(sel) IN
  /\ point[1] >= sel.boundingBox.minX + delta[1]
  /\ point[1] <= sel.boundingBox.maxX + delta[1]
  /\ point[2] >= sel.boundingBox.minY + delta[2]
  /\ point[2] <= sel.boundingBox.maxY + delta[2]

StartsDrag(point) == selTool.selection # <<>> /\ InsideSelection(selTool.selection[1], point)
Dragging == selTool.selection # <<>> /\ selTool.selection[1].isDragging
               /\ selTool.selection[1].dragStart # <<>>

\* handlePointerDown reaching the selector
DownSelector(pid, c) ==
  /\ pid \notin down
  /\ ReachesToolDown(pid, c)
  /\ tool = "selector"
  /\ down' = down \cup {pid}
  /\ cache' = CacheSet(cache, pid, c)
  /\ LET point == toCanvasPoint(c) IN
       IF StartsDrag(point)
       THEN LET sel == selTool.selection[1]
                delta == OptDelta(sel)
                nxt == [sel EXCEPT !.isDragging = TRUE,
                                   !.dragStart = <<point>>,
                                   !.dragDelta = << <<0, 0>> >>,
                                   !.dragOffset = << <<point[1] - (sel.boundingBox.minX + delta[1]),
                                                       point[2] - (sel.boundingBox.minY + delta[2])>> >>]
            IN /\ selTool' = [selTool EXCEPT !.selection = <<nxt>>]
               /\ selection' = <<nxt>>
               /\ selectionPath' = selectionPath
               /\ lastOp' = "downDrag"
       ELSE /\ selTool' = [selection |-> <<>>, path |-> <<point>>]
            /\ selection' = <<>>
            /\ selectionPath' = <<point>>
            /\ lastOp' = "downLasso"
  /\ UNCHANGED <<noteVars, pageVars, strokes, hist, tool, currentStroke, removedSession,
                 fadeVars, penCur, hlCur, er, penPriority, pinch, middlePan, raf, pinchMid2,
                 midFixed, viewVars, nextStrokeId, ghostVars>>
  /\ AfterRender

\* dragDelta computed by SelectorTool.handlePointerMove
DragDeltaAt(sel, point) ==
  LET offset == IF sel.dragOffset # <<>> THEN sel.dragOffset[1]
                ELSE <<sel.dragStart[1][1] - sel.boundingBox.minX,
                       sel.dragStart[1][2] - sel.boundingBox.minY>>
  IN <<(point[1] - offset[1]) - sel.boundingBox.minX,
       (point[2] - offset[2]) - sel.boundingBox.minY>>

\* handlePointerMove reaching the selector
MoveSelector(pid, c) ==
  /\ ReachesToolMove(pid, c)
  /\ tool = "selector"
  /\ cache' = CacheSet(cache, pid, c)
  /\ LET point == toCanvasPoint(c) IN
       IF Dragging
       THEN LET sel == selTool.selection[1]
                nxt == [sel EXCEPT !.dragDelta = <<DragDeltaAt(sel, point)>>]
            IN /\ selTool' = [selTool EXCEPT !.selection = <<nxt>>]
               /\ selection' = <<nxt>>
               /\ selectionPath' = selectionPath
               /\ lastOp' = "moveDrag"
       ELSE IF Len(selTool.path) > 0
       THEN /\ Len(selTool.path) < MaxPoints
            /\ selTool' = [selTool EXCEPT !.path = Append(@, point)]
            /\ selectionPath' = Append(selTool.path, point)
            /\ selection' = selection
            /\ lastOp' = "moveLasso"
       ELSE /\ UNCHANGED <<selTool, selVars>>
            /\ lastOp' = "moveSelector"
  /\ UNCHANGED <<noteVars, pageVars, strokes, hist, tool, currentStroke, removedSession,
                 fadeVars, penCur, hlCur, er, envVars, pinch, middlePan, raf, pinchMid2,
                 midFixed, viewVars, nextStrokeId, ghostVars>>
  /\ AfterRender

\* the onStrokesMove callback the selector was given at mount
MoveStrokes(list, ids, delta) ==
  [i \in DOMAIN list |-> IF list[i].id \in ids THEN translateStroke(list[i], delta) ELSE list[i]]

ShiftPoint(q, delta) == <<q[1] + delta[1], q[2] + delta[2]>>

\* the test of handlePointerUp that decides whether onStrokesMove is called
DragMovedAlways(sel) == TRUE
DragMoved(sel) == sel.dragDelta # <<>> /\ OptDelta(sel) # <<0, 0>>

\* handlePointerUp reaching the selector
UpSelector(pid) ==
  /\ ReachesToolUp(pid)
  /\ tool = "selector"
  /\ down' = down \ {pid}
  /\ cache' = UpCache(pid)
  /\ pinch' = IF UpClearsPinch(pid) THEN <<>> ELSE pinch
  /\ pinchMid2' = IF UpClearsPinch(pid) THEN <<>> ELSE pinchMid2
  /\ midFixed' = (UpClearsPinch(pid) \/ midFixed)
  /\ IF Dragging
     THEN LET sel == selTool.selection[1]
              delta == OptDelta(sel)
              moved == DragMoved(sel)
              nxt == [sel EXCEPT
                        !.polygon = [i \in DOMAIN sel.polygon |-> ShiftPoint(sel.polygon[i], delta)],
                        !.boundingBox = [minX |-> sel.boundingBox.minX + delta[1],
                                         minY |-> sel.boundingBox.minY + delta[2],
                                         maxX |-> sel.boundingBox.maxX + delta[1],
                                         maxY |-> sel.boundingBox.maxY + delta[2]],
                        !.isDragging = FALSE, !.dragStart = <<>>, !.dragDelta = <<>>,
                        !.dragOffset = <<>>]
          IN /\ IF moved
                THEN /\ CanPush(ToolPushTarget)
                     /\ hist' = PushSnapshot(hist, ToolPushTarget, strokes)
                     /\ strokes' = MoveStrokes(strokes, sel.strokeIds, delta)
                     /\ chain' = <<strokes'>>
                     /\ chainPos' = 1
                     /\ restored' = {}
                     /\ erased' = erased
                     /\ lastOp' = "bake"
                ELSE /\ UNCHANGED <<hist, strokes, ghostVars>>
                     /\ lastOp' = "upDragStill"
             /\ selTool' = [selTool EXCEPT !.selection = <<nxt>>]
             /\ selection' = <<nxt>>
             /\ selectionPath' = selectionPath
     ELSE IF Len(selTool.path) > 0
     THEN /\ IF Len(selTool.path) < 3
             THEN /\ selTool' = [selTool EXCEPT !.path = <<>>]
                  /\ selection' = selection
                  /\ lastOp' = "lassoCancel"
             ELSE LET ids == SelectedIds(strokes, selTool.path) IN
                  IF ids # {}
                  THEN LET nxt == [polygon |-> selTool.path, strokeIds |-> ids,
                                   boundingBox |-> BoundingBox(strokes, ids),
                                   isDragging |-> FALSE, dragStart |-> <<>>,
                                   dragDelta |-> <<>>, dragOffset |-> <<>>]
                       IN /\ selTool' = [selection |-> <<nxt>>, path |-> <<>>]
                          /\ selection' = <<nxt>>
                          /\ lastOp' = "lassoSelect"
                  ELSE /\ selTool' = [selTool EXCEPT !.path = <<>>]
                       /\ selection' = selection
                       /\ lastOp' = "lassoEmpty"
          /\ selectionPath' = <<>>
          /\ UNCHANGED <<hist, strokes, ghostVars>>
     ELSE /\ UNCHANGED <<selTool, selVars, hist, strokes, ghostVars>>
          /\ lastOp' = "upSelector"
  /\ UNCHANGED <<noteVars, pageVars, tool, currentStroke, removedSession, fadeVars,
                 penCur, hlCur, er, penPriority, middlePan, viewVars, nextStrokeId>>
  /\ raf' = IF UpClearsPinch(pid) \/ lastOp' = "bake" THEN <<>> ELSE raf
  /\ AfterRender

\* ------------------------------------------------------ selection actions
Colors == {"c1"}

\* handleSelectionColorChange (closure of the current render)
handleSelectionColorChange(color) ==
  /\ selection # <<>>
  /\ selection[1].strokeIds # {}
  /\ CanPush(FreshPushTarget)
  /\ hist' = PushSnapshot(hist, FreshPushTarget, strokes)
  /\ strokes' = [i \in DOMAIN strokes |->
                   IF strokes[i].id \in selection[1].strokeIds
                   THEN [strokes[i] EXCEPT !.color = color] ELSE strokes[i]]
  /\ chain' = <<strokes'>>
  /\ chainPos' = 1
  /\ restored' = {}
  /\ erased' = erased
  /\ raf' = <<>>
  /\ lastOp' = "color"
  /\ UNCHANGED <<noteVars, pageVars, tool, selVars, currentStroke, removedSession, fadeVars,
                 toolVars, envVars, pointerRefs, viewVars, nextStrokeId>>
  /\ AfterRender

\* the onDelete callback of SelectionActions (closure of the current render)
handleSelectionDelete ==
  /\ selection # <<>>
  /\ selection[1].strokeIds # {}
  /\ CanPush(FreshPushTarget)
  /\ hist' = PushSnapshot(hist, FreshPushTarget, strokes)
  /\ strokes' = RemoveIds(strokes, selection[1].strokeIds)
  /\ fading' = CleanFading(fading, strokes')
  /\ fadeTimers' = CleanTimers(fadeTimers, fading, strokes')
  /\ selection' = <<>>
  /\ selectionPath' = <<>>
  /\ chain' = <<strokes'>>
  /\ chainPos' = 1
  /\ restored' = {}
  /\ erased' = erased
  /\ raf' = <<>>
  /\ lastOp' = "delete"
  /\ UNCHANGED <<noteVars, pageVars, tool, currentStroke, removedSession,
                 toolVars, envVars, pointerRefs, viewVars, nextStrokeId>>
  /\ AfterRender

\* ------------------------------------------------------------ undo / redo
\* handleUndo without the early return on an empty history: the missing
\* snapshot is taken to be the empty list
handleUndoUnguarded ==
  /\ LET b == hist[FreshPushTarget] IN
       IF Len(b.history) = 0
       THEN /\ strokes' = <<>>
            /\ UNCHANGED hist
            /\ fading' = CleanFading(fading, <<>>)
            /\ fadeTimers' = CleanTimers(fadeTimers, fading, <<>>)
            /\ restored' = {}
            /\ erased' = erased
            /\ lastOp' = "undoNoop"
       ELSE LET previous == Last(b.history) IN
            /\ hist' = [hist EXCEPT ![FreshPushTarget] =
                          [history |-> Front(b.history),
                           future |-> Append(b.future, cloneStrokes(strokes))]]
            /\ strokes' = cloneStrokes(previous)
            /\ fading' = CleanFading(fading, previous)
            /\ fadeTimers' = CleanTimers(fadeTimers, fading, previous)
            /\ restored' = erased \cap StrokeIds(previous)
            /\ erased' = erased \ StrokeIds(previous)
            /\ lastOp' = "undo"
  /\ IF chainPos > 1 THEN UNCHANGED <<chain>> /\ chainPos' = chainPos - 1
     ELSE chain' = <<strokes'>> /\ chainPos' = 1
  /\ selection' = <<>>
  /\ selectionPath' = <<>>
  /\ currentStroke' = <<>>
  /\ UNCHANGED <<noteVars, pageVars, tool, removedSession, toolVars, envVars,
                 pointerRefs, viewVars, nextStrokeId>>
  /\ raf' = IF lastOp' = "undo" THEN <<>> ELSE raf
  /\ AfterRender

handleUndo ==
  /\ LET b == hist[FreshPushTarget] IN
       IF Len(b.history) = 0
       THEN /\ UNCHANGED <<strokes, hist, fadeVars>>
            /\ restored' = {}
            /\ erased' = erased
            /\ lastOp' = "undoNoop"
       ELSE LET previous == Last(b.history) IN
            /\ hist' = [hist EXCEPT ![FreshPushTarget] =
                          [history |-> Front(b.history),
                           future |-> Append(b.future, cloneStrokes(strokes))]]
            /\ strokes' = cloneStrokes(previous)
            /\ fading' = CleanFading(fading, previous)
            /\ fadeTimers' = CleanTimers(fadeTimers, fading, previous)
            /\ restored' = erased \cap StrokeIds(previous)
            /\ erased' = erased \ StrokeIds(previous)
            /\ lastOp' = "undo"
  /\ IF chainPos > 1 THEN UNCHANGED <<chain>> /\ chainPos' = chainPos - 1
     ELSE chain' = <<strokes'>> /\ chainPos' = 1
  /\ selection' = <<>>
  /\ selectionPath' = <<>>
  /\ currentStroke' = <<>>
  /\ UNCHANGED <<noteVars, pageVars, tool, removedSession, toolVars, envVars,
                 pointerRefs, viewVars, nextStrokeId>>
  /\ raf' = IF lastOp' = "undo" THEN <<>> ELSE raf
  /\ AfterRender

handleRedo ==
  /\ LET b == hist[FreshPushTarget] IN
       IF Len(b.future) = 0
       THEN /\ UNCHANGED <<strokes, hist, fadeVars>>
            /\ lastOp' = "redoNoop"
       ELSE LET next == Last(b.future) IN
            /\ hist' = [hist EXCEPT ![FreshPushTarget] =
                          [history |-> Append(b.history, cloneStrokes(strokes)),
                           future |-> Front(b.future)]]
            /\ strokes' = cloneStrokes(next)
            /\ fading' = CleanFading(fading, next)
            /\ fadeTimers' = CleanTimers(fadeTimers, fading, next)
            /\ lastOp' = "redo"
  /\ IF chainPos < Len(chain) THEN UNCHANGED <<chain>> /\ chainPos' = chainPos + 1
     ELSE chain' = <<strokes'>> /\ chainPos' = 1
  /\ restored' = {}
  /\ erased' = erased
  /\ selection' = <<>>
  /\ selectionPath' = <<>>
  /\ currentStroke' = <<>>
  /\ UNCHANGED <<noteVars, pageVars, tool, removedSession, toolVars, envVars,
                 pointerRefs, viewVars, nextStrokeId>>
  /\ raf' = IF lastOp' = "redo" THEN <<>> ELSE raf
  /\ AfterRender

\* handleToolChange
handleToolChange(t) ==
  /\ t # tool
  /\ tool' = t
  /\ selection' = <<>>
  /\ selectionPath' = <<>>
  /\ raf' = <<>>
  /\ lastOp' = "toolChange"
  /\ UNCHANGED <<noteVars, pageVars, strokes, hist, currentStroke, removedSession,
                 fadeVars, toolVars, envVars, pointerRefs, viewVars, nextStrokeId,
                 ghostVars>>
  /\ AfterRender

\* --------------------------------------------------------- page navigation
\* pages.map((p, idx) => idx === currentIdx ? {...p, strokes: live} : p)
WithLiveStrokes(basePages, currentIdx) ==
  [i \in DOMAIN basePages |->
     IF i = currentIdx THEN [basePages[i] EXCEPT !.strokes = cloneStrokes(strokes)]
     ELSE basePages[i]]

\* a page switch in which only the handler's resetHistory clears buffers
BuffersAfterSwitchLeftOnly(h, leftId, shownId, loadedId) ==
  [h EXCEPT ![leftId] = EmptyBuffers]

\* the history buffers after a page switch: resetHistory of the handler's
\* render clears those of the page that is left, and the load effect, which
\* runs when the id of the active page changed, clears those of the page shown
BuffersAfterSwitch(h, leftId, shownId, loadedId) ==
  LET left == [h EXCEPT ![leftId] = EmptyBuffers]
  IN IF loadedId # shownId THEN [left EXCEPT ![shownId] = EmptyBuffers] ELSE left

\* selectPage(index, pagesSnapshot, currentIndexSnapshot) followed by the render
\* and the note-sync effects it triggers.  resetHistory is the closure of the
\* render in which the handler runs, so it clears the buffers of the page that
\* is being left; the load effect then clears those of the page that is shown.
selectPage(index, basePages, currentIdx, op) ==
  LET clamped == Min2(Max2(1, index), Max2(1, Len(basePages)))
      updatedPages == WithLiveStrokes(basePages, currentIdx)
      nextPage == updatedPages[clamped]
  IN /\ pages' = updatedPages
     /\ noteIdx' = clamped
     /\ currentPageIndex' = clamped
     /\ strokes' = cloneStrokes(nextPage.strokes)
     /\ hist' = BuffersAfterSwitch(hist, ActivePageId, nextPage.id, loadedPageId)
     /\ loadedPageId' = nextPage.id
     /\ removedSession' = {}
     /\ currentStroke' = <<>>
     /\ selection' = <<>>
     /\ selectionPath' = <<>>
     /\ viewport' = [scale |-> 100, offsetX |-> 0, offsetY |-> 0]
     /\ fading' = CleanFading(fading, nextPage.strokes)
     /\ fadeTimers' = CleanTimers(fadeTimers, fading, nextPage.strokes)
     /\ chain' = <<strokes'>>
     /\ chainPos' = 1
     /\ erased' = {}
     /\ restored' = {}
     /\ raf' = <<>>
     /\ lastOp' = op
     /\ UNCHANGED <<mountPageId, tool, toolVars, envVars, pointerRefs, viewOps, nextStrokeId>>
     /\ AfterRender

handleSelectPage(index) ==
  /\ selectPage(index, pages, noteIdx, "selectPage")
  /\ UNCHANGED nextPageId

addPage ==
  /\ nextPageId <= MaxPageIds
  /\ selectPage(Len(pages) + 1, Append(pages, [id |-> nextPageId, strokes |-> <<>>]),
                noteIdx, "addPage")
  /\ nextPageId' = nextPageId + 1

\* duplicatePage publishes the list with the copy and then calls selectPage(idx + 1)
\* without a snapshot, so selectPage starts again from activeNote.pages
duplicatePage ==
  /\ selectPage(noteIdx + 1, pages, noteIdx, "duplicatePage")
  /\ UNCHANGED nextPageId

deletePage ==
  /\ Len(pages) > 1
  /\ LET updatedPages == FilterSeq(pages, {pages[i] : i \in DOMAIN pages \ {noteIdx}})
     IN selectPage(Min2(noteIdx, Len(updatedPages)), updatedPages, noteIdx, "deletePage")
  /\ UNCHANGED nextPageId

\* the debounced autosave timer fires (queueAutoSave). exportCanvas returns
\* null once the canvas ref is detached, and the callback then returns before
\* onUpdate; while mounted, onUpdate hands the parent a new note and the
\* effect on queueAutoSave arms the next timer
AutoSaveFire ==
  /\ autoSaveTimer
  /\ IF mounted
     THEN /\ pages' = WithLiveStrokes(pages, currentPageIndex)
          /\ noteIdx' = currentPageIndex
          /\ autoSaveTimer' = TRUE
          /\ lastOp' = "autoSave"
     ELSE /\ UNCHANGED noteVars
          /\ autoSaveTimer' = FALSE
          /\ lastOp' = "autoSaveDropped"
  /\ UNCHANGED <<pageVars, strokes, hist, tool, selVars, currentStroke, removedSession,
                 fadeVars, toolVars, envVars, pointerVars, viewVars, nextStrokeId, ghostVars,
                 mounted, saved, storeVars>>

\* the component unmounts: the cleanups clear every fade timer (and the eraser
\* indicator timer), the listener effect cancels the pending animation frame,
\* and saveOnUnmountRef calls onSave with the live strokes when exportCanvas
\* still finds the canvas. Whether the canvas ref is still attached when the
\* effect cleanup runs depends on the React version, which the repository
\* does not pin down. autoSaveTimeoutRef is not touched.
Unmount ==
  /\ mounted
  /\ mounted' = FALSE
  /\ fadeTimers' = {}
  /\ raf' = <<>>
  /\ \E canvasAttached \in BOOLEAN :
       saved' = IF canvasAttached THEN Append(saved, cloneStrokes(strokes)) ELSE saved
  /\ lastOp' = "unmount"
  /\ UNCHANGED <<noteVars, pageVars, strokes, hist, tool, selVars, currentStroke,
                 removedSession, fading, toolVars, envVars, pointerRefs, viewVars,
                 nextStrokeId, chain, chainPos, erased, restored, autoSaveTimer,
                 storeVars>>

\* ------------------------------------------------- viewport and gestures
NoUpdate == [kind |-> "none", distance |-> 0, midX |-> 0, midY |-> 0, dmx |-> 0, dmy |-> 0,
             offsetX |-> 0, offsetY |-> 0]

\* the first two values of the pointer cache, in insertion order
PointAt(c, i) == <<c[i].x, c[i].y>>

\* midpoint as the handlers compute it: (points[0]?.x ?? 0 + (points[1]?.x ?? 0)) / 2,
\* where ?? binds more loosely than +, so the value is points[0].x / 2
midpoint(c) == <<c[1].x \div 2, c[1].y \div 2>>

\* twice the geometric midpoint of the first two cached pointers
TrueMid2(c) == <<c[1].x + c[2].x, c[1].y + c[2].y>>

\* handlePointerDown for a touch that makes the cache hold two or more pointers
DownTouchMulti(pid, c) ==
  /\ pid \notin down
  /\ IsTouch(pid)
  /\ Len(CacheSet(cache, pid, c)) >= 2
  /\ down' = down \cup {pid}
  /\ cache' = CacheSet(cache, pid, c)
  /\ LET distance == distanceBetween(PointAt(cache', 1), PointAt(cache', 2))
         mid == midpoint(cache')
     IN IF distance < MIN_FINGER_DISTANCE
        THEN /\ UNCHANGED <<pinch, raf, pinchMid2, midFixed>>
             /\ lastOp' = "downTooClose"
        ELSE /\ pinch' = << [initialDistance |-> distance,
                             initialScale |-> viewport.scale,
                             initialOffsetX |-> viewport.offsetX,
                             initialOffsetY |-> viewport.offsetY,
                             initialMidX |-> mid[1],
                             initialMidY |-> mid[2],
                             gestureType |-> "none"] >>
             /\ raf' = <<>>
             /\ pinchMid2' = <<TrueMid2(cache')>>
             /\ midFixed' = TRUE
             /\ lastOp' = "downPinch"
  /\ UNCHANGED <<noteVars, pageVars, strokes, hist, tool, selVars, currentStroke,
                 removedSession, fadeVars, toolVars, penPriority, middlePan, viewVars,
                 nextStrokeId, ghostVars>>
  /\ AfterRender

\* handlePointerDown for a single touch in pen-priority mode
DownTouchPriority(pid, c) ==
  /\ pid \notin down
  /\ IsTouch(pid)
  /\ penPriority
  /\ Len(CacheSet(cache, pid, c)) < 2
  /\ down' = down \cup {pid}
  /\ cache' = CacheSet(cache, pid, c)
  /\ lastOp' = "downTouchPriority"
  /\ UNCHANGED <<noteVars, pageVars, strokes, hist, tool, selVars, currentStroke,
                 removedSession, fadeVars, toolVars, penPriority, pinch, middlePan, raf,
                 pinchMid2, midFixed, viewVars, nextStrokeId, ghostVars>>
  /\ AfterRender

\* handlePointerMove for a touch dropped by the 8 ms throttle
MoveThrottled(pid, c) ==
  /\ IsTouch(pid)
  /\ ~Significant(pid, c)
  /\ cache' = CacheSet(cache, pid, c)
  /\ lastOp' = "moveThrottled"
  /\ UNCHANGED <<noteVars, pageVars, strokes, hist, tool, selVars, currentStroke,
                 removedSession, fadeVars, toolVars, envVars, pinch, middlePan, raf,
                 pinchMid2, midFixed, viewVars, nextStrokeId, ghostVars>>
  /\ AfterRender

\* handlePointerMove for a single touch in pen-priority mode
MoveTouchPriority(pid, c) ==
  /\ IsTouch(pid)
  /\ penPriority
  /\ Len(CacheSet(cache, pid, c)) < 2
  /\ cache' = CacheSet(cache, pid, c)
  /\ lastOp' = "moveTouchPriority"
  /\ UNCHANGED <<noteVars, pageVars, strokes, hist, tool, selVars, currentStroke,
                 removedSession, fadeVars, toolVars, envVars, pinch, middlePan, raf,
                 pinchMid2, midFixed, viewVars, nextStrokeId, ghostVars>>
  /\ AfterRender

\* lazy classification of the two-finger gesture
Classify(ps, distance, dmx, dmy) ==
  IF ps.gestureType # "none" THEN ps.gestureType
  ELSE IF Abs(distance - ps.initialDistance) > ZOOM_THRESHOLD /\ distance >= MIN_FINGER_DISTANCE
       THEN "zoom"
  ELSE IF dmx * dmx + dmy * dmy > PAN_THRESHOLD * PAN_THRESHOLD THEN "pan"
  ELSE "none"

\* handlePointerMove for a touch while the cache holds two or more pointers
MoveTouchMulti(pid, c) ==
  /\ IsTouch(pid)
  /\ Len(CacheSet(cache, pid, c)) >= 2
  /\ cache' = CacheSet(cache, pid, c)
  /\ IF pinch = <<>>
     THEN /\ UNCHANGED <<pinch, raf, midFixed>>
          /\ lastOp' = "moveNoPinch"
     ELSE LET ps == pinch[1]
              distance == distanceBetween(PointAt(cache', 1), PointAt(cache', 2))
              mid == midpoint(cache')
              dmx == mid[1] - ps.initialMidX
              dmy == mid[2] - ps.initialMidY
              g == Classify(ps, distance, dmx, dmy)
          IN /\ pinch' = << [ps EXCEPT !.gestureType = g] >>
             /\ IF g = "none"
                THEN /\ UNCHANGED <<raf, midFixed>>
                     /\ lastOp' = "pinchWait"
                ELSE IF raf # <<>>
                THEN /\ UNCHANGED <<raf, midFixed>>
                     /\ lastOp' = "pinchDropped"
                ELSE /\ raf' = << [NoUpdate EXCEPT !.kind = "pinch", !.distance = distance,
                                                   !.midX = mid[1], !.midY = mid[2],
                                                   !.dmx = dmx, !.dmy = dmy] >>
                     /\ midFixed' = (midFixed /\ pinchMid2 = <<TrueMid2(cache')>>)
                     /\ lastOp' = "pinchSchedule"
  /\ UNCHANGED <<noteVars, pageVars, strokes, hist, tool, selVars, currentStroke,
                 removedSession, fadeVars, toolVars, envVars, middlePan, pinchMid2,
                 viewVars, nextStrokeId, ghostVars>>
  /\ AfterRender

\* handlePointerUp for a touch in pen-priority mode
UpTouchPriority(pid) ==
  /\ IsTouch(pid)
  /\ penPriority
  /\ down' = down \ {pid}
  /\ cache' = UpCache(pid)
  /\ pinch' = IF UpClearsPinch(pid) THEN <<>> ELSE pinch
  /\ raf' = IF UpClearsPinch(pid) THEN <<>> ELSE raf
  /\ pinchMid2' = IF UpClearsPinch(pid) THEN <<>> ELSE pinchMid2
  /\ midFixed' = (UpClearsPinch(pid) \/ midFixed)
  /\ lastOp' = "upTouchPriority"
  /\ UNCHANGED <<noteVars, pageVars, strokes, hist, tool, selVars, currentStroke,
                 removedSession, fadeVars, toolVars, penPriority, middlePan,
                 viewVars, nextStrokeId, ghostVars>>
  /\ AfterRender

\* handlePointerDown for the middle mouse button
DownMiddle(pid, c) ==
  /\ pid \notin down
  /\ ~Ignored(pid)
  /\ PointerType(pid) = "mouse"
  /\ down' = down \cup {pid}
  /\ middlePan' = << [pointerId |-> pid, startX |-> c[1], startY |-> c[2],
                      initialOffsetX |-> viewport.offsetX,
                      initialOffsetY |-> viewport.offsetY] >>
  /\ lastOp' = "downMiddle"
  /\ UNCHANGED <<noteVars, pageVars, strokes, hist, tool, selVars, currentStroke,
                 removedSession, fadeVars, toolVars, penPriority, cache, pinch, raf,
                 pinchMid2, midFixed, viewVars, nextStrokeId, ghostVars>>
  /\ AfterRender

\* handlePointerMove of the pointer that holds the middle-mouse pan
MoveMiddle(pid, c) ==
  /\ ~Ignored(pid)
  /\ MiddlePanOf(pid)
  /\ IF raf # <<>>
     THEN /\ UNCHANGED raf
          /\ lastOp' = "middleDropped"
     ELSE /\ raf' = << [NoUpdate EXCEPT !.kind = "middle",
                          !.offsetX = middlePan[1].initialOffsetX + (c[1] - middlePan[1].startX),
                          !.offsetY = middlePan[1].initialOffsetY + (c[2] - middlePan[1].startY)] >>
          /\ lastOp' = "middleSchedule"
  /\ UNCHANGED <<noteVars, pageVars, strokes, hist, tool, selVars, currentStroke,
                 removedSession, fadeVars, toolVars, envVars, cache, pinch, middlePan,
                 pinchMid2, midFixed, viewVars, nextStrokeId, ghostVars>>
  /\ AfterRender

\* handlePointerUp of the pointer that holds the middle-mouse pan
UpMiddle(pid) ==
  /\ ~Ignored(pid)
  /\ MiddlePanOf(pid)
  /\ down' = down \ {pid}
  /\ middlePan' = <<>>
  /\ lastOp' = "upMiddle"
  /\ UNCHANGED <<noteVars, pageVars, strokes, hist, tool, selVars, currentStroke,
                 removedSession, fadeVars, toolVars, penPriority, cache, pinch, raf,
                 pinchMid2, midFixed, viewVars, nextStrokeId, ghostVars>>
  /\ AfterRender

\* the snap condition of the zoom branches
nearBoundaryNever(nextScale, prevScale) == FALSE
nearBoundary(nextScale, prevScale) == nextScale <= SNAP_SCALE /\ prevScale <= SNAP_SCALE

\* a zoom branch whose snap always lands on scale 1
PinchZoomToOne(prev, ps, u) ==
  LET nextScale == clamp((ps.initialScale * u.distance) \div ps.initialDistance,
                         MIN_SCALE, MAX_SCALE)
  IN IF nearBoundary(nextScale, prev.scale)
     THEN [scale |-> 100, offsetX |-> 0, offsetY |-> 0]
     ELSE LET clientMidX == u.midX - (RECT_ORIGIN + prev.offsetX)
              clientMidY == u.midY - (RECT_ORIGIN + prev.offsetY)
          IN [scale |-> nextScale,
              offsetX |-> clientMidX - ((clientMidX - ps.initialOffsetX) * nextScale) \div ps.initialScale,
              offsetY |-> clientMidY - ((clientMidY - ps.initialOffsetY) * nextScale) \div ps.initialScale]

\* the zoom branch of the pinch update
PinchZoom(prev, ps, u) ==
  LET nextScale == clamp((ps.initialScale * u.distance) \div ps.initialDistance,
                         MIN_SCALE, MAX_SCALE)
  IN IF nearBoundary(nextScale, prev.scale)
     THEN [scale |-> Max2(100, nextScale), offsetX |-> 0, offsetY |-> 0]
     ELSE LET clientMidX == u.midX - (RECT_ORIGIN + prev.offsetX)
              clientMidY == u.midY - (RECT_ORIGIN + prev.offsetY)
          IN [scale |-> nextScale,
              offsetX |-> clientMidX - ((clientMidX - ps.initialOffsetX) * nextScale) \div ps.initialScale,
              offsetY |-> clientMidY - ((clientMidY - ps.initialOffsetY) * nextScale) \div ps.initialScale]

\* the pan branch of the pinch update
PinchPan(prev, ps, u) ==
  IF Abs(u.dmx) < DEADZONE /\ Abs(u.dmy) < DEADZONE THEN prev
  ELSE IF prev.scale <= SNAP_SCALE
          /\ u.dmx * u.dmx + u.dmy * u.dmy < PAN_MIN_MAGNITUDE * PAN_MIN_MAGNITUDE
       THEN prev
  ELSE [scale |-> prev.scale,
        offsetX |-> ps.initialOffsetX + u.dmx,
        offsetY |-> ps.initialOffsetY + u.dmy]

\* the animation frame requested by updateViewportRaf runs; a viewport that
\* changed re-creates the handlers, and the listener effect's cleanup finds no
\* frame pending
RafFire ==
  /\ raf # <<>>
  /\ viewOps < MaxViewOps
  /\ LET u == raf[1] IN
       IF u.kind = "middle"
       THEN /\ viewport' = [viewport EXCEPT !.offsetX = u.offsetX, !.offsetY = u.offsetY]
            /\ lastOp' = "rafMiddle"
       ELSE IF pinch[1].gestureType = "zoom"
       THEN /\ viewport' = PinchZoom(viewport, pinch[1], u)
            /\ lastOp' = "rafZoom"
       ELSE /\ viewport' = PinchPan(viewport, pinch[1], u)
            /\ lastOp' = "rafPan"
  /\ raf' = <<>>
  /\ viewOps' = viewOps + 1
  /\ UNCHANGED <<noteVars, pageVars, strokes, hist, tool, selVars, currentStroke,
                 removedSession, fadeVars, toolVars, envVars, cache, pinch, middlePan,
                 pinchMid2, midFixed, nextStrokeId, ghostVars>>
  /\ AfterRender

\* Math.exp(-deltaY * ZOOM_SENSITIVITY) in hundredths, ZOOM_SENSITIVITY = 0.0025
WheelDeltas == {-400, -100, 100, 400}
zoomFactor(deltaY) ==
  CASE deltaY = -400 -> 272
    [] deltaY = -100 -> 128
    [] deltaY = 100 -> 78
    [] deltaY = 400 -> 37

\* the scale handleWheel asks for
WheelScale(prev, deltaY) ==
  clamp((prev.scale * zoomFactor(deltaY)) \div 100, MIN_SCALE, MAX_SCALE)

\* the viewport update of handleWheel
WheelUpdate(prev, c, deltaY) ==
  LET point == toCanvasPoint(c)
      nextScale == WheelScale(prev, deltaY)
      baseLeft == RectLeft - prev.offsetX
      baseTop == RectTop - prev.offsetY
  IN IF nextScale = prev.scale THEN prev
     ELSE IF nearBoundary(nextScale, prev.scale)
     THEN [scale |-> 100, offsetX |-> 0, offsetY |-> 0]
     ELSE [scale |-> nextScale,
           offsetX |-> c[1] - baseLeft - (nextScale * point[1]) \div 100,
           offsetY |-> c[2] - baseTop - (nextScale * point[2]) \div 100]

handleWheel(c, deltaY) ==
  /\ viewOps < MaxViewOps
  /\ viewport' = WheelUpdate(viewport, c, deltaY)
  /\ viewOps' = viewOps + 1
  /\ raf' = IF viewport' # viewport THEN <<>> ELSE raf
  /\ lastOp' = IF WheelScale(viewport, deltaY) = viewport.scale THEN "wheelNoop" ELSE "wheel"
  /\ UNCHANGED <<noteVars, pageVars, strokes, hist, tool, selVars, currentStroke,
                 removedSession, fadeVars, toolVars, envVars, cache, pinch, middlePan,
                 pinchMid2, midFixed, nextStrokeId, ghostVars>>
  /\ AfterRender

\* useViewportZoom: the update shared by the two zoom buttons
ZoomTo(prev, raw) ==
  LET scale == clamp(raw, MIN_SCALE, MAX_SCALE)
  IN IF scale = prev.scale THEN prev
     ELSE [scale |-> scale,
           offsetX |-> IF scale <= 100 THEN 0 ELSE prev.offsetX,
           offsetY |-> IF scale <= 100 THEN 0 ELSE prev.offsetY]

ViewportButton(next, op) ==
  /\ viewOps < MaxViewOps
  /\ viewport' = next
  /\ viewOps' = viewOps + 1
  /\ raf' = IF next # viewport THEN <<>> ELSE raf
  /\ lastOp' = op
  /\ UNCHANGED <<noteVars, pageVars, strokes, hist, tool, selVars, currentStroke,
                 removedSession, fadeVars, toolVars, envVars, cache, pinch, middlePan,
                 pinchMid2, midFixed, nextStrokeId, ghostVars>>
  /\ AfterRender

zoomIn == ViewportButton(ZoomTo(viewport, (viewport.scale * 12) \div 10), "zoomIn")
zoomOut == ViewportButton(ZoomTo(viewport, (viewport.scale * 10) \div 12), "zoomOut")
resetZoom == ViewportButton([scale |-> 100, offsetX |-> 0, offsetY |-> 0], "resetZoom")


\* ------------------------------------------------- the pointer listeners
\* the first early return of the three handlers: in pen-priority mode an event
\* that is neither touch nor pen is dropped before anything is read or written
IgnoredDown(pid) ==
  /\ pid \notin down
  /\ Ignored(pid)
  /\ down' = down \cup {pid}
  /\ lastOp' = "ignoredDown"
  /\ UNCHANGED <<noteVars, pageVars, strokes, hist, tool, selVars, currentStroke,
                 removedSession, fadeVars, toolVars, penPriority, pointerVars, viewVars,
                 nextStrokeId, ghostVars>>
  /\ AfterRender

IgnoredMove(pid) ==
  /\ Ignored(pid)
  /\ lastOp' = "ignoredMove"
  /\ UNCHANGED <<noteVars, pageVars, strokes, hist, tool, selVars, currentStroke,
                 removedSession, fadeVars, toolVars, envVars, pointerVars, viewVars,
                 nextStrokeId, ghostVars>>
  /\ AfterRender

IgnoredUp(pid) ==
  /\ Ignored(pid)
  /\ down' = down \ {pid}
  /\ lastOp' = "ignoredUp"
  /\ UNCHANGED <<noteVars, pageVars, strokes, hist, tool, selVars, currentStroke,
                 removedSession, fadeVars, toolVars, penPriority, pointerVars, viewVars,
                 nextStrokeId, ghostVars>>
  /\ AfterRender

\* handlePointerDown, handlePointerMove and handlePointerUp: every path an
\* event of pointer pid at client position c can take
handlePointerDown(pid, c) ==
  \/ IgnoredDown(pid)
  \/ DownMiddle(pid, c)
  \/ DownTouchMulti(pid, c)
  \/ DownTouchPriority(pid, c)
  \/ DownDraw(pid, c)
  \/ DownEraser(pid, c)
  \/ DownSelector(pid, c)

handlePointerMove(pid, c) ==
  \/ IgnoredMove(pid)
  \/ MoveMiddle(pid, c)
  \/ MoveThrottled(pid, c)
  \/ MoveTouchMulti(pid, c)
  \/ MoveTouchPriority(pid, c)
  \/ MoveDraw(pid, c)
  \/ MoveEraser(pid, c)
  \/ MoveSelector(pid, c)

handlePointerUp(pid) ==
  \/ IgnoredUp(pid)
  \/ UpMiddle(pid)
  \/ UpTouchPriority(pid)
  \/ UpDraw(pid)
  \/ UpEraser(pid)
  \/ UpSelector(pid)

\* ------------------------------------------------------------------ Init
InitPages ==
  << [id |-> 1, strokes |-> << Stroke(1, "pen", << <<0, 0>> >>),
                             Stroke(3, "pen", << <<40, 40>> >>) >>],
     [id |-> 2, strokes |-> << Stroke(2, "pen", << <<0, 0>>, <<20, 0>> >>) >>] >>

\* loadNotes: the stored currentPageIndex (0-based), 0 unless an integer,
\* without the clamp to the page list
loadNotesIndexUnclamped(stored, n) ==
  IF stored.isInteger THEN stored.value ELSE 0

\* loadNotes: the stored currentPageIndex (0-based), 0 unless an integer,
\* clamped to the page list
loadNotesIndex(stored, n) ==
  LET idx == IF stored.isInteger THEN stored.value ELSE 0
  IN Min2(Max2(0, idx), Max2(0, n - 1))

\* the note load effect of the workspace: activeNote.currentPageIndex (0-based)
\* clamped once more
loadEffectIndex(noteIndex, n) == Min2(Max2(0, noteIndex), Max2(0, n - 1))

\* the state after mount and the first load of a note with the given pages
\* and note index, shown at page startIdx and at the given scale, with the
\* given lasso path under way at the selector (empty: no gesture under way)
InitState(notePages, noteIndex, startIdx, startTool, priority, scale, lasso, lassoPointer) ==
  /\ pages = notePages
  /\ noteIdx = noteIndex
  /\ currentPageIndex = startIdx
  /\ strokes = cloneStrokes(notePages[startIdx].strokes)
  /\ hist = [p \in PageIdSet |-> EmptyBuffers]
  /\ mountPageId = notePages[1].id
  /\ loadedPageId = notePages[startIdx].id
  /\ tool = startTool
  /\ selection = <<>>
  /\ selectionPath = lasso
  /\ currentStroke = <<>>
  /\ removedSession = {}
  /\ fading = {}
  /\ fadeTimers = {}
  /\ penCur = <<>>
  /\ hlCur = <<>>
  /\ er = [isErasing |-> FALSE, removed |-> {}]
  /\ selTool = [selection |-> <<>>, path |-> lasso]
  /\ penPriority = priority
  /\ down = IF lasso = <<>> THEN {} ELSE {lassoPointer}
  /\ cache = IF lasso = <<>> THEN <<>>
             ELSE <<[id |-> lassoPointer,
                     x |-> ((Last(lasso)[1] * scale) \div 100) + RECT_ORIGIN,
                     y |-> ((Last(lasso)[2] * scale) \div 100) + RECT_ORIGIN]>>
  /\ pinch = <<>>
  /\ middlePan = <<>>
  /\ raf = <<>>
  /\ viewport = [scale |-> scale, offsetX |-> 0, offsetY |-> 0]
  /\ viewOps = 0
  /\ nextStrokeId = 1 + SetMax({0} \cup UNION {StrokeIds(notePages[i].strokes) : i \in DOMAIN notePages})
  /\ nextPageId = 1 + SetMax({notePages[i].id : i \in DOMAIN notePages})
  /\ lastOp = "init"
  /\ chain = <<strokes>>
  /\ chainPos = 1
  /\ erased = {}
  /\ restored = {}
  /\ pinchMid2 = <<>>
  /\ midFixed = TRUE
  /\ mounted = TRUE
  /\ autoSaveTimer = TRUE
  /\ saved = <<>>
  /\ storeNotes = 0
  /\ lastPersistSignature = 0
  /\ persistTimeout = FALSE
  /\ inFlight = <<>>
  /\ dbNotes = 0

InitNoteAt(notePages, noteIndex, startIdx, startTool, priority, scale) ==
  InitState(notePages, noteIndex, startIdx, startTool, priority, scale, <<>>, 4)

InitNote(notePages, startIdx, startTool, priority, scale) ==
  InitNoteAt(notePages, startIdx, startIdx, startTool, priority, scale)

InitWith(startIdx, startTool, priority) == InitNote(InitPages, startIdx, startTool, priority, 100)

MousePen == {4}
DrawPts == {<<0, 0>>, <<40, 0>>}
ErasePts == {<<0, 0>>, <<0, 40>>}
LassoPts == {<<0, 0>>, <<40, 0>>, <<0, 40>>}

HistoryActions ==
  \/ handleUndo
  \/ handleRedo

PageActions ==
  \/ \E i \in 1..MaxPageIds : i <= Len(pages) /\ handleSelectPage(i)

PageEditActions ==
  \/ addPage
  \/ deletePage

DrawActions(pids, pts) ==
  \/ \E pid \in pids, c \in pts : DownDraw(pid, c)
  \/ \E pid \in pids, c \in pts : pid \in down /\ MoveDraw(pid, c)
  \/ \E pid \in pids : pid \in down /\ UpDraw(pid)

EraserActions(pids, pts) ==
  \/ \E pid \in pids, c \in pts : DownEraser(pid, c)
  \/ \E pid \in pids, c \in pts : pid \in down /\ MoveEraser(pid, c)
  \/ \E pid \in pids : pid \in down /\ UpEraser(pid)
  \/ \E id \in 1..MaxStrokeIds : FadeTimerFire(id)

SelectorActions(pids, pts) ==
  \/ \E pid \in pids, c \in pts : DownSelector(pid, c)
  \/ \E pid \in pids, c \in pts : pid \in down /\ MoveSelector(pid, c)
  \/ \E pid \in pids : pid \in down /\ UpSelector(pid)
  \/ \E c \in Colors : handleSelectionColorChange(c)
  \/ handleSelectionDelete

\* drawing session: pen or highlighter with a mouse, undo/redo, page switches
InitDraw == \E i \in {1, 2}, t \in {"pen", "highlighter"} : InitWith(i, t, FALSE)
NextDraw == DrawActions(MousePen, DrawPts) \/ HistoryActions \/ PageActions
SpecDraw == InitDraw /\ [][NextDraw]_vars

\* erasing session
InitErase == \E i \in {1, 2} : InitWith(i, "eraser", FALSE)
NextErase ==
  EraserActions(MousePen, ErasePts) \/ HistoryActions \/ PageActions \/ PageEditActions
SpecErase == InitErase /\ [][NextErase]_vars

\* selection session
InitSelect == \E i \in {1, 2} : InitWith(i, "selector", FALSE)
NextSelect == SelectorActions(MousePen, LassoPts)
SpecSelect == InitSelect /\ [][NextSelect]_vars

FirstFinger == {1}
SecondFinger == {2}
PinchFirstPts == {<<90, 0>>, <<100, 0>>, <<100, 40>>}
PinchSecondPts == {<<300, 0>>, <<310, 0>>}
ViewFirstPts == {<<100, 0>>}
ViewSecondPts == {<<300, 0>>, <<900, 0>>}
DrawTouchPts == {<<100, 0>>, <<150, 0>>, <<300, 0>>}
MiddlePts == {<<0, 0>>, <<30, 0>>}
WheelPts == {<<100, 0>>}

PinchActions(pids, pts) ==
  \/ \E pid \in pids, c \in pts : DownTouchMulti(pid, c)
  \/ \E pid \in pids, c \in pts : pid \in down /\ MoveTouchMulti(pid, c)

ThrottleActions(pids, pts) ==
  \E pid \in pids, c \in pts : pid \in down /\ MoveThrottled(pid, c)

PriorityTouchActions(pids, pts) ==
  \/ \E pid \in pids, c \in pts : DownTouchPriority(pid, c)
  \/ \E pid \in pids, c \in pts : pid \in down /\ MoveTouchPriority(pid, c)
  \/ \E pid \in pids : pid \in down /\ UpTouchPriority(pid)

MiddleActions(pids, pts) ==
  \/ \E pid \in pids, c \in pts : DownMiddle(pid, c)
  \/ \E pid \in pids, c \in pts : pid \in down /\ MoveMiddle(pid, c)
  \/ \E pid \in pids : pid \in down /\ UpMiddle(pid)

ZoomActions(pts) ==
  \/ \E c \in pts, deltaY \in WheelDeltas : handleWheel(c, deltaY)
  \/ zoomIn
  \/ zoomOut
  \/ resetZoom

\* finger drawing session: pen or highlighter with touch, no stylus present
InitTouch == InitWith(1, "highlighter", FALSE)
NextTouch ==
  \/ DrawActions(FirstFinger \cup SecondFinger, DrawTouchPts)
  \/ PinchActions(FirstFinger \cup SecondFinger, DrawTouchPts)
SpecTouch == InitTouch /\ [][NextTouch]_vars

\* two-finger session on a stylus device: the fingers spread and close
\* symmetrically about their midpoint
InitPinch == InitWith(1, "selector", TRUE)
NextPinch ==
  \/ PinchActions(FirstFinger, PinchFirstPts)
  \/ PinchActions(SecondFinger, PinchSecondPts)
  \/ ThrottleActions(FirstFinger \cup SecondFinger, PinchFirstPts \cup PinchSecondPts)
  \/ PriorityTouchActions(FirstFinger, PinchFirstPts)
  \/ PriorityTouchActions(SecondFinger, PinchSecondPts)
  \/ RafFire
SpecPinch == InitPinch /\ [][NextPinch]_vars

\* navigation session: two-finger gestures on a stylus device, or the mouse on
\* a desktop, with the wheel, the zoom buttons and page switches
InitView == \E priority \in BOOLEAN : InitWith(1, "selector", priority)
NextView ==
  \/ PinchActions(FirstFinger, ViewFirstPts)
  \/ PinchActions(SecondFinger, ViewSecondPts)
  \/ PriorityTouchActions(FirstFinger, ViewFirstPts)
  \/ PriorityTouchActions(SecondFinger, ViewSecondPts)
  \/ MiddleActions(MousePen, MiddlePts)
  \/ RafFire
  \/ ZoomActions(WheelPts)
  \/ handleSelectPage(1)
SpecView == InitView /\ [][NextView]_vars

ThirdFinger == {3}
GestureFirstPts == {<<100, 0>>, <<100, 40>>}
GestureSecondPts == {<<300, 0>>, <<330, 0>>}
GestureThirdPts == {<<200, 100>>}

\* three-finger session on a stylus device: two fingers pinch or pan and a
\* third finger joins and leaves
InitGesture == InitWith(1, "selector", TRUE)
NextGesture ==
  \/ PinchActions(FirstFinger, GestureFirstPts)
  \/ PinchActions(SecondFinger, GestureSecondPts)
  \/ PinchActions(ThirdFinger, GestureThirdPts)
  \/ PriorityTouchActions(FirstFinger, GestureFirstPts)
  \/ PriorityTouchActions(SecondFinger, GestureSecondPts)
  \/ PriorityTouchActions(ThirdFinger, GestureThirdPts)
SpecGesture == InitGesture /\ [][NextGesture]_vars

StylusPointers == {1, 4, 5}
StylusPts == {<<0, 0>>, <<120, 0>>, <<0, 120>>}
\* the pen visits every point, the finger and the mouse rest at one
StylusPtsOf(pid) == IF PointerType(pid) = "pen" THEN StylusPts ELSE {<<120, 0>>}

\* stylus session: pen-priority mode with a finger, a mouse and a pen, every
\* event offered to every path of the handlers
InitStylus == \E t \in {"highlighter", "eraser", "selector"} : InitWith(1, t, TRUE)
NextStylus ==
  \/ \E pid \in StylusPointers : IgnoredDown(pid)
  \/ \E pid \in StylusPointers : pid \in down /\ IgnoredMove(pid)
  \/ \E pid \in StylusPointers : pid \in down /\ IgnoredUp(pid)
  \/ \E pid \in StylusPointers : \E c \in StylusPtsOf(pid) : DownTouchMulti(pid, c)
  \/ \E pid \in StylusPointers : \E c \in StylusPtsOf(pid) : DownTouchPriority(pid, c)
  \/ \E pid \in StylusPointers : \E c \in StylusPtsOf(pid) : DownDraw(pid, c)
  \/ \E pid \in StylusPointers : \E c \in StylusPtsOf(pid) : DownEraser(pid, c)
  \/ \E pid \in StylusPointers : \E c \in StylusPtsOf(pid) : DownSelector(pid, c)
  \/ \E pid \in StylusPointers : \E c \in StylusPtsOf(pid) : pid \in down /\ MoveTouchMulti(pid, c)
  \/ \E pid \in StylusPointers : \E c \in StylusPtsOf(pid) : pid \in down /\ MoveTouchPriority(pid, c)
  \/ \E pid \in StylusPointers : \E c \in StylusPtsOf(pid) : pid \in down /\ MoveDraw(pid, c)
  \/ \E pid \in StylusPointers : \E c \in StylusPtsOf(pid) : pid \in down /\ MoveEraser(pid, c)
  \/ \E pid \in StylusPointers : \E c \in StylusPtsOf(pid) : pid \in down /\ MoveSelector(pid, c)
  \/ \E pid \in StylusPointers : pid \in down /\ UpTouchPriority(pid)
  \/ \E pid \in StylusPointers : pid \in down /\ UpDraw(pid)
  \/ \E pid \in StylusPointers : pid \in down /\ UpEraser(pid)
  \/ \E pid \in StylusPointers : pid \in down /\ UpSelector(pid)
  \/ \E id \in 1..MaxStrokeIds : FadeTimerFire(id)
SpecStylus == InitStylus /\ [][NextStylus]_vars

LoosePts == {<<0, 0>>, <<40, 0>>, <<0, 40>>}

\* loose session: one tool and a mouse whose events need not come in
\* down-move-up order (hover moves before a press, pointerleave after pointerup)
InitLoose == \E t \in Tools : InitWith(1, t, FALSE)
NextLoose ==
  \/ \E pid \in MousePen, c \in LoosePts : DownDraw(pid, c)
  \/ \E pid \in MousePen, c \in LoosePts : MoveDraw(pid, c)
  \/ \E pid \in MousePen : UpDraw(pid)
  \/ \E pid \in MousePen, c \in LoosePts : DownEraser(pid, c)
  \/ \E pid \in MousePen, c \in LoosePts : MoveEraser(pid, c)
  \/ \E pid \in MousePen : UpEraser(pid)
  \/ \E id \in 1..MaxStrokeIds : FadeTimerFire(id)
  \/ \E pid \in MousePen, c \in LoosePts : DownSelector(pid, c)
  \/ \E pid \in MousePen, c \in LoosePts : MoveSelector(pid, c)
  \/ \E pid \in MousePen : UpSelector(pid)
SpecLoose == InitLoose /\ [][NextLoose]_vars

ToolChangeActions(ts) == \E t \in ts : handleToolChange(t)

\* reselect session: the selector with a mouse, and the toolbar switching to
\* the pen and back
InitReselect == InitWith(1, "selector", FALSE)
NextReselect ==
  \/ \E pid \in MousePen, c \in LassoPts : DownSelector(pid, c)
  \/ \E pid \in MousePen, c \in LassoPts : pid \in down /\ MoveSelector(pid, c)
  \/ \E pid \in MousePen : pid \in down /\ UpSelector(pid)
  \/ ToolChangeActions({"pen", "selector"})
SpecReselect == InitReselect /\ [][NextReselect]_vars

\* a page for the hit test: the segment (0,0)-(10,0), the same segment drawn
\* by the eraser tool, a dot and a polyline with a diagonal
HitPages ==
  << [id |-> 1, strokes |-> << Stroke(1, "pen", << <<0, 0>>, <<10, 0>> >>),
                             Stroke(2, "eraser", << <<0, 0>>, <<10, 0>> >>),
                             Stroke(3, "highlighter", << <<40, 40>> >>),
                             Stroke(4, "pen", << <<20, 20>>, <<30, 30>>, <<30, 40>> >>) >>] >>
HitScales == {100, 200}
HitXs == {-14, -13, 5, 22, 23, 24, 40}
HitYs == {0, 6, 7, 13, 14, 30, 40}
\* client positions whose canvas points are the grid HitXs x HitYs
HitPts(scale) == {<<(x * scale) \div 100, (y * scale) \div 100>> : x \in HitXs, y \in HitYs}

\* hit-test session: the eraser with a mouse over the page above, at scale 1 or 2
InitHit == \E scale \in HitScales : InitNote(HitPages, 1, "eraser", FALSE, scale)
NextHit ==
  \/ \E pid \in MousePen : \E c \in HitPts(viewport.scale) : DownEraser(pid, c)
  \/ \E pid \in MousePen : \E c \in HitPts(viewport.scale) : pid \in down /\ MoveEraser(pid, c)
  \/ \E pid \in MousePen : pid \in down /\ UpEraser(pid)
  \/ \E id \in 1..MaxStrokeIds : FadeTimerFire(id)
SpecHit == InitHit /\ [][NextHit]_vars

\* a session that ends with the unmount of the workspace: drawing or erasing
\* with a mouse, the fade and autosave timers, and the unmount
InitUnmount == \E t \in {"pen", "eraser"} : InitWith(1, t, FALSE)
NextUnmount ==
  \/ DrawActions(MousePen, DrawPts)
  \/ EraserActions(MousePen, ErasePts)
  \/ AutoSaveFire
  \/ Unmount
SpecUnmount == InitUnmount /\ [][NextUnmount]_vars

\* erasing session in which every fade timer that stays pending fires in the end
NextFade == EraserActions(MousePen, ErasePts) \/ HistoryActions \/ PageActions
SpecFade ==
  /\ InitErase
  /\ [][NextFade]_vars
  /\ \A id \in 1..MaxStrokeIds : WF_vars(FadeTimerFire(id))

\* erasing session on one page: gestures may follow each other faster than the
\* fade timers fire
NextRehit == EraserActions(MousePen, ErasePts) \/ HistoryActions
SpecRehit == InitErase /\ [][NextRehit]_vars

\* the square of the lasso test and the probe points: inside, outside, on the
\* left edge, on the right edge
Square == << <<0, 0>>, <<10, 0>>, <<10, 10>>, <<0, 10>> >>
ProbePoints == << <<5, 5>>, <<15, 5>>, <<0, 5>>, <<10, 5>> >>
ProbePages ==
  << [id |-> 1, strokes |-> [i \in DOMAIN ProbePoints |-> Stroke(i, "pen", <<ProbePoints[i]>>)]] >>
Corners == SeqToSet(Square)
\* lasso paths under way: every path of up to two corners, every triangle of
\* corners, and the square
LassoPaths ==
  {<<>>} \cup {<<a>> : a \in Corners} \cup {<<a, b>> : a \in Corners, b \in Corners}
    \cup {<<a, b, c>> : a \in Corners, b \in Corners, c \in Corners} \cup {Square}

\* lasso session over the probe strokes, entered with a lasso path under way
InitPolygon ==
  \E lasso \in LassoPaths : InitState(ProbePages, 1, 1, "selector", FALSE, 100, lasso, 4)
NextPolygon ==
  \/ \E pid \in MousePen : \E c \in Corners : DownSelector(pid, c)
  \/ \E pid \in MousePen : \E c \in Corners : pid \in down /\ MoveSelector(pid, c)
  \/ \E pid \in MousePen : pid \in down /\ UpSelector(pid)
SpecPolygon == InitPolygon /\ [][NextPolygon]_vars

\* a page for the lasso: a dot inside the square, a stroke with one point
\* outside and one inside, an eraser-tool stroke inside, a stroke outside, and a
\* three-point stroke inside
LassoPages ==
  << [id |-> 1, strokes |-> << Stroke(1, "pen", << <<5, 5>> >>),
                             Stroke(2, "pen", << <<15, 5>>, <<8, 3>> >>),
                             Stroke(3, "eraser", << <<5, 5>>, <<6, 6>> >>),
                             Stroke(4, "pen", << <<15, 15>>, <<20, 20>> >>),
                             Stroke(5, "highlighter", << <<2, 8>>, <<3, 9>>, <<1, 7>> >>) >>] >>

\* lasso session over that page, entered with a lasso path under way
InitLasso ==
  \E lasso \in LassoPaths : InitState(LassoPages, 1, 1, "selector", FALSE, 100, lasso, 4)
SpecLasso == InitLasso /\ [][NextPolygon]_vars

\* a page with one stroke whose box is 4..8 by 2..4
ModePages ==
  << [id |-> 1, strokes |-> << Stroke(1, "pen", << <<4, 2>>, <<8, 4>> >>) >>] >>

\* a lasso around the stroke; a point inside its box, a point on the right
\* edge of the box and a point just outside it
ModeLasso == << <<0, 0>>, <<12, 0>>, <<0, 12>> >>
ModePts == {<<RECT_ORIGIN + q[1], RECT_ORIGIN + q[2]>> :
              q \in {<<6, 3>>, <<8, 3>>, <<9, 3>>}}
MouseAndPen == {4, 5}

\* selector session with a mouse and a pen, entered with the lasso drawn
InitModes == InitState(ModePages, 1, 1, "selector", FALSE, 100, ModeLasso, 4)
NextModes ==
  \/ \E pid \in MouseAndPen, c \in ModePts : DownSelector(pid, c)
  \/ \E pid \in MouseAndPen, c \in ModePts : pid \in down /\ MoveSelector(pid, c)
  \/ \E pid \in MouseAndPen : pid \in down /\ UpSelector(pid)
SpecModes == InitModes /\ [][NextModes]_vars

\* mixed session on one page: erasing, drawing and switching between the
\* two tools, with undo and redo
NextEraseDraw ==
  \/ EraserActions(MousePen, ErasePts)
  \/ DrawActions(MousePen, DrawPts)
  \/ ToolChangeActions({"pen", "eraser"})
  \/ HistoryActions
InitEraseDraw == InitWith(1, "eraser", FALSE)
SpecEraseDraw == InitEraseDraw /\ [][NextEraseDraw]_vars

\* what storage may hold as currentPageIndex: any integer, or no integer at all
StoredIndexes ==
  {[isInteger |-> TRUE, value |-> k] : k \in (0 - 1)..(MaxPageIds + 1)}
    \cup {[isInteger |-> FALSE, value |-> 0]}

\* page session: a note is loaded from storage, pages are selected (with any
\* index), added, duplicated and deleted, strokes are drawn in between
InitPageNav ==
  \E stored \in StoredIndexes :
    LET noteIndex == loadNotesIndex(stored, Len(InitPages))
    IN InitNoteAt(InitPages, noteIndex + 1, loadEffectIndex(noteIndex, Len(InitPages)) + 1,
                  "pen", FALSE, 100)
NextPageNav ==
  \/ \E i \in 0..(MaxPageIds + 1) : handleSelectPage(i)
  \/ addPage
  \/ duplicatePage
  \/ deletePage
  \/ DrawActions(MousePen, DrawPts)
  \/ AutoSaveFire
SpecPageNav == InitPageNav /\ [][NextPageNav]_vars

\* ------------------------------------------------------------ notes store
\* the workspace state, which the store does not touch
workspaceVars ==
  <<pages, noteIdx, currentPageIndex, strokes, hist, mountPageId, loadedPageId,
    tool, selection, selectionPath, currentStroke, removedSession, fading,
    fadeTimers, penCur, hlCur, er, selTool, penPriority, down, cache, pinch,
    middlePan, raf, viewport, viewOps, nextStrokeId, nextPageId,
    chain, chainPos, erased, restored, pinchMid2, midFixed, mounted,
    autoSaveTimer, saved>>

\* values of snapshot.notes: null, or a list of notes standing for its
\* signature; 0 is the empty signature of the empty list
NullNotes == -1
NoteLists == 0..MaxSignatures
computeSignature(notes) == IF notes = NullNotes THEN 0 ELSE notes

\* flushPersist up to its await: persistNotes is started unless the notes are
\* null or their signature is the last persisted one
flushPersist(op) ==
  /\ lastOp' = op
  /\ IF storeNotes = NullNotes
     THEN lastPersistSignature' = 0 /\ UNCHANGED inFlight
     ELSE IF computeSignature(storeNotes) = lastPersistSignature
          THEN UNCHANGED <<lastPersistSignature, inFlight>>
          ELSE /\ inFlight' = Append(inFlight, computeSignature(storeNotes))
               /\ UNCHANGED lastPersistSignature

\* setNotes(next): snapshot.notes := next, then schedulePersist()
setNotes(next) ==
  /\ storeNotes' = next
  /\ persistTimeout' = (persistTimeout \/ computeSignature(next) # lastPersistSignature)
  /\ lastOp' = "setNotes"
  /\ UNCHANGED <<lastPersistSignature, inFlight, dbNotes, workspaceVars>>

\* the 400 ms debounce timer fires
PersistTimerFire ==
  /\ persistTimeout
  /\ Len(inFlight) < MaxInFlight
  /\ persistTimeout' = FALSE
  /\ flushPersist("persistTimer")
  /\ UNCHANGED <<storeNotes, dbNotes, workspaceVars>>

\* schedulePersist(true), called by persistNow, by visibilitychange to hidden
\* and by beforeunload: clear the timer and flush at once
schedulePersistImmediate(op) ==
  /\ Len(inFlight) < MaxInFlight
  /\ persistTimeout' = FALSE
  /\ flushPersist(op)
  /\ UNCHANGED <<storeNotes, dbNotes, workspaceVars>>

persistNow == schedulePersistImmediate("persistNow")
handleVisibility == schedulePersistImmediate("visibilityHidden")
handleBeforeUnload == schedulePersistImmediate("beforeUnload")

\* a persistNotes call in flight settles: its transaction replaces the object
\* store (ok) or it fails; persistNotes catches its own errors and resolves
\* either way, so flushPersist resumes and records the signature it computed
\* at its start
PersistSettled(i, ok) ==
  /\ i \in DOMAIN inFlight
  /\ dbNotes' = IF ok THEN inFlight[i] ELSE dbNotes
  /\ lastPersistSignature' = inFlight[i]
  /\ inFlight' = [j \in 1..(Len(inFlight) - 1) |-> IF j < i THEN inFlight[j] ELSE inFlight[j + 1]]
  /\ lastOp' = IF ok THEN "persistDone" ELSE "persistFailed"
  /\ UNCHANGED <<storeNotes, persistTimeout, workspaceVars>>

PersistDone(i) == PersistSettled(i, TRUE)
PersistFailed(i) == PersistSettled(i, FALSE)

InitStore == InitWith(1, "pen", FALSE)
NextStore ==
  \/ \E next \in NoteLists \cup {NullNotes} : setNotes(next)
  \/ PersistTimerFire
  \/ persistNow
  \/ handleVisibility
  \/ handleBeforeUnload
  \/ \E i \in 1..MaxInFlight : PersistDone(i)
  \/ \E i \in 1..MaxInFlight : PersistFailed(i)
SpecStore == InitStore /\ [][NextStore]_vars

\* store session in which every write succeeds and the notes are never null
NextPersist ==
  \/ \E next \in NoteLists : setNotes(next)
  \/ PersistTimerFire
  \/ persistNow
  \/ \E i \in 1..MaxInFlight : PersistDone(i)
SpecPersist == InitStore /\ [][NextPersist]_vars

\* ------------------------------------------------------------ properties
Mutations == {"commit", "eraseFirst", "bake", "color", "delete"}

\* C1: every mutating action performed while page P is active pushes the
\* pre-mutation stroke list onto P's own history stack, empties P's future
\* stack and leaves the stacks of every other page unchanged.
C1_SnapshotOnActivePage ==
  [][lastOp' \in Mutations =>
       /\ hist'[ActivePageId].history = Append(hist[ActivePageId].history, strokes)
       /\ hist'[ActivePageId].future = <<>>
       /\ \A p \in PageIdSet \ {ActivePageId} : hist'[p] = hist[p]]_vars

\* C2: along a run of commits, undos and redos the live stroke list is always
\* the list the run had at that position: k undos after k commits return to the
\* list before the commits, and k redos return to the list before the undos.
C2_UndoRedoSymmetry == strokes = chain[chainPos]

\* C3: once no fade timer is pending, every stroke that an undo has brought
\* back after the eraser hit it is in the live stroke list.
C3_UndoneEraseStays == fadeTimers = {} => restored \subseteq StrokeIds(strokes)

\* C4: when a page switch leaves page P, the strokes written for P do not
\* contain a stroke the eraser has hit on P (and no undo has restored).
C4_SwitchKeepsErasures ==
  [][(lastOp' \in {"selectPage", "addPage", "deletePage"}
        /\ currentPageIndex' # currentPageIndex
        /\ currentPageIndex \in DOMAIN pages'
        /\ pages'[currentPageIndex].id = ActivePageId)
       => StrokeIds(pages'[currentPageIndex].strokes) \cap erased = {}]_vars

\* the pointer displacement of the drag that is being released, in canvas space
PointerDisplacement(pid) ==
  LET start == selTool.selection[1].dragStart[1]
      end == toCanvasPoint(CacheGet(cache, pid))
  IN <<end[1] - start[1], end[2] - start[2]>>

\* C6: releasing a drag of displacement (dx,dy) shifts every point of every
\* selected stroke by exactly (dx,dy), keeps the number and order of strokes and
\* of their points, leaves every unselected stroke unchanged, and the list
\* snapshotted before the move still holds the untranslated strokes.
C6_DragBakeShifts ==
  [][lastOp' = "bake" =>
       LET sel == selTool.selection[1]
           d == PointerDisplacement(CHOOSE pid \in down : pid \notin down')
       IN /\ Len(strokes') = Len(strokes)
          /\ \A i \in DOMAIN strokes :
               IF strokes[i].id \in sel.strokeIds
               THEN /\ strokes'[i].id = strokes[i].id
                    /\ strokes'[i].tool = strokes[i].tool
                    /\ strokes'[i].color = strokes[i].color
                    /\ Len(strokes'[i].points) = Len(strokes[i].points)
                    /\ \A k \in DOMAIN strokes[i].points :
                         strokes'[i].points[k] =
                           <<strokes[i].points[k][1] + d[1], strokes[i].points[k][2] + d[2]>>
               ELSE strokes'[i] = strokes[i]
          /\ \E p \in PageIdSet :
               /\ Len(hist'[p].history) = Len(hist[p].history) + 1
               /\ Last(hist'[p].history) = strokes]_vars

\* a drag was released with a non-zero displacement while another stroke of the
\* page was not selected
C6_Witness ==
  /\ lastOp = "bake"
  /\ selection # <<>>
  /\ StrokeIds(strokes) \ selection[1].strokeIds # {}

RECURSIVE SumHistory(_, _)
SumHistory(h, n) == IF n = 0 THEN 0 ELSE Len(h[n].history) + SumHistory(h, n - 1)
\* the number of snapshots on the history stacks of all pages
TotalHistory(h) == SumHistory(h, MaxPageIds)

\* C7 as stated: the pointer-up that ends a selection drag pushes exactly one
\* history snapshot, and the pointer-moves of the drag leave the live stroke
\* list and the history stacks unchanged.
C7_OneSnapshotPerDrag ==
  [][/\ lastOp' \in {"bake", "upDragStill"} => TotalHistory(hist') = TotalHistory(hist) + 1
     /\ lastOp' = "moveDrag" => (strokes' = strokes /\ hist' = hist)]_vars

\* C7 amended: the pointer-up that ends a selection drag pushes exactly one
\* history snapshot when the final displacement is non-zero and none (leaving
\* the stroke list unchanged) when it is zero; the pointer-moves of the drag
\* leave the live stroke list and the history stacks unchanged and republish
\* the selection with the displacement so far.
C7_OneSnapshotPerMovedDrag ==
  [][/\ lastOp' \in {"bake", "upDragStill"} =>
          IF PointerDisplacement(CHOOSE pid \in down : pid \notin down') # <<0, 0>>
          THEN /\ TotalHistory(hist') = TotalHistory(hist) + 1
               /\ \E p \in PageIdSet : /\ Len(hist'[p].history) = Len(hist[p].history) + 1
                                       /\ Last(hist'[p].history) = strokes
          ELSE hist' = hist /\ strokes' = strokes
     /\ lastOp' = "moveDrag" =>
          /\ strokes' = strokes
          /\ hist' = hist
          /\ \E pid \in down : selection'[1].dragDelta = <<PointerDisplacement(pid)'>>]_vars

\* a drag was released where it had started, after an earlier drag had moved
\* the selection
C7_Witness ==
  /\ lastOp = "upDragStill"
  /\ TotalHistory(hist) > 0

TouchesDown == {pid \in down : IsTouch(pid)}

\* C5: while two or more touch pointers are down, no step commits a stroke,
\* erases or changes the selection; in particular lifting a finger does not
\* commit the stroke the first finger had started.
C5_MultiTouchNeverEdits ==
  [][Cardinality(TouchesDown) >= 2 =>
       /\ strokes' = strokes
       /\ fading' = fading
       /\ selection' = selection]_vars

\* C8: the viewport scale is always between MIN_SCALE and MAX_SCALE.
C8_ScaleInRange == MIN_SCALE <= viewport.scale /\ viewport.scale <= MAX_SCALE

\* an update asked for more than MAX_SCALE and was clamped
C8_Witness == viewport.scale = MAX_SCALE /\ lastOp \in {"rafZoom", "wheel", "zoomIn"}

RestViewport == [scale |-> 100, offsetX |-> 0, offsetY |-> 0]

\* C9 as stated: no state has a scale at or below 1.05 with a non-zero offset.
C9_RestScaleHasNoOffset ==
  viewport.scale <= SNAP_SCALE => (viewport.offsetX = 0 /\ viewport.offsetY = 0)

\* C9 amended: a pinch-zoom or wheel update that changes the viewport while the
\* scale before it and the scale it computes are both at or below 1.05 leaves
\* the offset at (0,0); a zoom-button update that brings the scale to 1 or less
\* leaves the offset at (0,0); reset-zoom and a page switch leave scale 1 and
\* offset (0,0).  Pans and zooms that cross 1.05 downwards keep their offset.
C9_SnapAtRest ==
  [][/\ (lastOp' \in {"rafZoom", "wheel"}
           /\ viewport.scale <= SNAP_SCALE /\ viewport'.scale <= SNAP_SCALE)
        => (viewport'.offsetX = 0 /\ viewport'.offsetY = 0)
     /\ (lastOp' \in {"zoomIn", "zoomOut"} /\ viewport'.scale # viewport.scale
           /\ viewport'.scale <= 100)
        => (viewport'.offsetX = 0 /\ viewport'.offsetY = 0)
     /\ lastOp' \in {"resetZoom", "selectPage"} => viewport' = RestViewport]_vars

\* a wheel update at rest scale has snapped the viewport to scale 1, offset (0,0)
C9_Witness ==
  /\ lastOp = "wheel"
  /\ viewport = RestViewport

\* C10: after the zoom updates of a pinch whose geometric midpoint was at its
\* starting position at every update, the canvas point that was under that
\* midpoint at gesture start is shown within 2 pixels of it (updates that snap
\* to the rest viewport excepted).
C10_PinchAnchored ==
  (lastOp = "rafZoom" /\ pinch # <<>> /\ pinchMid2 # <<>> /\ midFixed
      /\ viewport.scale > SNAP_SCALE)
  => LET ps == pinch[1]
         shownX == 2 * (RECT_ORIGIN + viewport.offsetX)
                     + ((pinchMid2[1][1] - 2 * (RECT_ORIGIN + ps.initialOffsetX)) * viewport.scale)
                         \div ps.initialScale
         shownY == 2 * (RECT_ORIGIN + viewport.offsetY)
                     + ((pinchMid2[1][2] - 2 * (RECT_ORIGIN + ps.initialOffsetY)) * viewport.scale)
                         \div ps.initialScale
     IN /\ Abs(shownX - pinchMid2[1][1]) <= 4
        /\ Abs(shownY - pinchMid2[1][2]) <= 4

\* the gesture type the pinch state holds ("none" until classified)
LockedType == IF pinch = <<>> THEN "none" ELSE pinch[1].gestureType

\* C11: once a two-pointer gesture is classified as zoom or pan, its type stays
\* the same in every step after which two or more pointers are still cached: no
\* pointer-move and no additional pointer-down resets or changes it.
C11_GestureTypeLocked ==
  [][(LockedType \in {"zoom", "pan"} /\ Len(cache') >= 2)
       => (pinch' # <<>> /\ pinch'[1].gestureType = LockedType)]_vars

\* the part of C11 about pointer-moves and pointer-ups: a step that is not a
\* pointer-down keeps the locked type while two or more pointers stay cached
C11_MovesKeepLock ==
  [][(LockedType \in {"zoom", "pan"} /\ Len(cache') >= 2 /\ down' \subseteq down)
       => (pinch' # <<>> /\ pinch'[1].gestureType = LockedType)]_vars

\* everything the workspace, the tools and the pointer handlers hold
programVars == <<pages, noteIdx, currentPageIndex, strokes, hist, mountPageId, loadedPageId,
                 tool, selection, selectionPath, currentStroke, removedSession, fading,
                 fadeTimers, penCur, hlCur, er, selTool, cache, pinch, middlePan, raf,
                 viewport>>
\* what the drawing tools read and write
drawingVars == <<strokes, hist, selection, selectionPath, currentStroke, removedSession,
                 fading, fadeTimers, penCur, hlCur, er, selTool>>

\* the step is a pointer event of pointer pid
EventOf(pid) ==
  \/ \E c \in StylusPts : handlePointerDown(pid, c) \/ handlePointerMove(pid, c)
  \/ handlePointerUp(pid)

\* C12: in pen-priority mode a pointer event of a mouse changes no state, and a
\* pointer event of a touch pointer changes no stroke, history, selection,
\* fade or tool state; so only pen events reach the drawing tools.
C12_PenPriorityFilters ==
  [][penPriority =>
       \A pid \in StylusPointers :
          /\ (PointerType(pid) = "mouse" /\ EventOf(pid)) => UNCHANGED programVars
          /\ (PointerType(pid) = "touch" /\ EventOf(pid)) => UNCHANGED drawingVars]_vars

\* a finger and a mouse are down while the pen has a stroke in progress, has
\* begun erasing or holds a selection
C12_Witness ==
  /\ penPriority
  /\ {1, 4, 5} \subseteq down
  /\ lastOp \in {"ignoredMove", "moveTouchPriority", "moveNoPinch", "pinchWait", "pinchSchedule"}
  /\ (hlCur # <<>> \/ er.isErasing \/ selTool.selection # <<>>)

\* C13: a pointer-down of the pen or highlighter starts a stroke of one point
\* and appends nothing; a pointer-up with a stroke in progress appends exactly
\* that stroke, which has at least one point, and leaves the tool and the
\* workspace with no current stroke; a pointer-up with no stroke in progress
\* appends nothing; every stroke of the live list has at least one point.
C13_OneStrokePerGesture ==
  [][/\ lastOp' = "downDraw" =>
          /\ DrawCur' # <<>>
          /\ Len(DrawCur'[1].points) = 1
          /\ strokes' = strokes
     /\ lastOp' = "moveDraw" => strokes' = strokes
     /\ lastOp' \in {"commit", "upDraw"} =>
          /\ DrawCur' = <<>>
          /\ IF DrawCur # <<>>
             THEN /\ Len(DrawCur[1].points) >= 1
                  /\ strokes' = Append(strokes, DrawCur[1])
                  /\ currentStroke' = <<>>
             ELSE strokes' = strokes /\ hist' = hist
     /\ \A i \in DOMAIN strokes' : Len(strokes'[i].points) >= 1]_vars

\* a stroke of several points was committed, and a second pointer-up followed
C13_Witness ==
  /\ lastOp = "upDraw"
  /\ strokes # <<>>
  /\ Last(strokes).id >= 4
  /\ Len(Last(strokes).points) >= 2

\* the active tool has no gesture in progress: no current stroke, not erasing,
\* no drag and no lasso path
ToolIdle ==
  CASE tool \in {"pen", "highlighter"} -> DrawCur = <<>>
    [] tool = "eraser" -> ~er.isErasing
    [] tool = "selector" -> ~Dragging /\ selTool.path = <<>>

\* the step is a pointer-move or a pointer-up of the mouse
MoveOrUp ==
  \E pid \in MousePen :
     \/ \E c \in LoosePts : handlePointerMove(pid, c)
     \/ handlePointerUp(pid)

\* C19: a pointer-move or pointer-up that reaches a tool with no gesture in
\* progress (a hover move, a second pointer-up) leaves the live stroke list,
\* the history stacks and the selection unchanged and starts no fade timer.
C19_MalformedIsNoop ==
  [][(ToolIdle /\ MoveOrUp) =>
       /\ strokes' = strokes
       /\ hist' = hist
       /\ selection' = selection
       /\ fading' = fading
       /\ fadeTimers' = fadeTimers]_vars

\* the mouse hovers over a stroke with the eraser, or a pointer-up arrives at
\* the selector while a selection is shown and nothing is being dragged
C19_Witness ==
  /\ down = {}
  /\ \/ /\ lastOp = "moveEraser"
        /\ getStrokesAtPoint(toCanvasPoint(CacheGet(cache, 4)), strokes, viewport.scale, {}) # {}
     \/ /\ lastOp = "upSelector"
        /\ selection # <<>>

\* C20: when the workspace shows no selection, the selector tool holds none
\* either, so a selector pointer-down never starts a drag: it starts a lasso.
C20_ClearedSelectionStaysCleared ==
  [][selection = <<>> =>
       /\ selTool.selection = <<>>
       /\ lastOp' # "downDrag"]_vars

\* the part of C20 about the empty-area click: a selector pointer-down outside
\* the bounding box clears the selection of the workspace and of the tool
C20_EmptyClickClears ==
  [][lastOp' = "downLasso" => (selection' = <<>> /\ selTool'.selection = <<>>)]_vars

\* the eraser radius (eraserSize/2)/viewportScale as the fraction RadiusNum/RadiusDen
RadiusNum(scale) == ERASER_SIZE * (100 \div GCD(scale, 100))
RadiusDen(scale) == 2 * (scale \div GCD(scale, 100))

\* distance from p to the segment a-b is at most the radius: to the nearer end
\* point when the foot of the perpendicular falls outside the segment, else the
\* perpendicular distance |cross| / |b - a|
NearSegment(p, a, b, scale) ==
  LET ux == b[1] - a[1]
      uy == b[2] - a[2]
      wx == p[1] - a[1]
      wy == p[2] - a[2]
      cross == wx * uy - wy * ux
      along == wx * ux + wy * uy
      rn2 == RadiusNum(scale) * RadiusNum(scale)
      rd2 == RadiusDen(scale) * RadiusDen(scale)
  IN IF along < 0 \/ (ux = 0 /\ uy = 0) THEN (wx * wx + wy * wy) * rd2 <= rn2
     ELSE IF along > ux * ux + uy * uy THEN Dist2(p, b) * rd2 <= rn2
     ELSE cross * cross * rd2 <= rn2 * (ux * ux + uy * uy)

\* the strokes the eraser at p must hit, given the ids already removed
ExpectedHits(p, list, scale, before) ==
  {list[i].id : i \in {j \in DOMAIN list :
      /\ list[j].tool # "eraser"
      /\ list[j].id \notin before
      /\ \/ \E k \in 1..(Len(list[j].points) - 1) :
               NearSegment(p, list[j].points[k], list[j].points[k + 1], scale)
         \/ /\ Len(list[j].points) = 1
            /\ NearSegment(p, list[j].points[1], list[j].points[1], scale)}}

\* C14: the strokes an erasing pointer-down or pointer-move at p adds to the
\* removed set are exactly the non-eraser strokes not yet removed in the gesture
\* whose distance to p is at most (eraserSize/2)/viewportScale; for the stroke
\* (0,0)-(10,0) a point (5,y) hits exactly when |y| is within the radius, and a
\* point (x,0) beyond an end exactly when its distance to that end is.
C14_EraserHitTest ==
  [][(lastOp' \in {"eraseNone", "eraseFirst", "eraseMore", "moveEraser"} /\ er'.isErasing) =>
       LET p == toCanvasPoint(CacheGet(cache', 4))
           before == IF 4 \in down THEN er.removed ELSE {}
           hits == er'.removed \ before
           rn == RadiusNum(viewport.scale)
           rd == RadiusDen(viewport.scale)
       IN /\ before \subseteq er'.removed
          /\ hits = ExpectedHits(p, strokes, viewport.scale, before)
          /\ 2 \notin er'.removed
          /\ (1 \in StrokeIds(strokes) /\ 1 \notin before /\ p[1] = 5)
                => (1 \in hits <=> Abs(p[2]) * rd <= rn)
          /\ (1 \in StrokeIds(strokes) /\ 1 \notin before /\ p[2] = 0 /\ p[1] > 10)
                => (1 \in hits <=> (p[1] - 10) * rd <= rn)
          /\ (1 \in StrokeIds(strokes) /\ 1 \notin before /\ p[2] = 0 /\ p[1] < 0)
                => (1 \in hits <=> (0 - p[1]) * rd <= rn)]_vars

\* at scale 1 (radius 13) the eraser at (5,13) has hit the segment (0,0)-(10,0)
\* and nothing else
C14_Witness ==
  /\ viewport.scale = 100
  /\ lastOp = "eraseFirst"
  /\ toCanvasPoint(CacheGet(cache, 4)) = <<5, 13>>
  /\ er.removed = {1}

\* C15: undo with an empty history stack and redo with an empty future stack
\* of the active page leave the live stroke list and both stacks of every page
\* unchanged, and canUndo (for undo) and canRedo (for redo) are false
\* afterwards.
C15_EmptyUndoRedoNoop ==
  [][/\ (handleUndo /\ Len(hist[ActivePageId].history) = 0)
          => (strokes' = strokes /\ hist' = hist /\ ~canUndo')
     /\ (handleRedo /\ Len(hist[ActivePageId].future) = 0)
          => (strokes' = strokes /\ hist' = hist /\ ~canRedo')]_vars

\* an undo on an empty history while strokes are on the page and a redo is
\* still available
C15_Witness ==
  /\ lastOp = "undoNoop"
  /\ strokes # <<>>
  /\ canRedo
  /\ ~canUndo

\* auxiliary: a redo on an empty future while an undo is available
C15_WitnessRedo ==
  /\ lastOp = "redoNoop"
  /\ canUndo
  /\ ~canRedo

\* C16: once the component is unmounted, onSave has been called exactly once
\* with the live stroke list and no timer is pending: neither a fade timer nor
\* the debounced autosave timer.
C16_UnmountSavesAndCancels ==
  ~mounted => /\ Len(saved) = 1
              /\ saved[1] = strokes
              /\ fadeTimers = {}
              /\ ~autoSaveTimer

\* auxiliary: after unmount no fade timer is pending, onSave has been called at
\* most once (and then with the live strokes), and nothing changes the strokes,
\* the note or the fading marks: a late autosave timer returns before onUpdate
C16_FadeTimersCancelled ==
  ~mounted => (fadeTimers = {} /\ Len(saved) <= 1 /\ \A i \in DOMAIN saved : saved[i] = strokes)
C16_NothingRunsAfterUnmount ==
  [][~mounted => (strokes' = strokes /\ pages' = pages /\ fading' = fading /\ saved' = saved)]_vars

\* C17: at any time at most one persistNotes call started by the notes store
\* is in flight.
C17_OnePersistInFlight == Len(inFlight) <= 1

\* C18: in every reachable state the page index of the note and the page index
\* of the workspace are valid indexes into the page list of the note, which is
\* never empty (indexes are 1-based here: 1 <= index <= Len(pages)).
C18_PageIndexValid ==
  /\ Len(pages) >= 1
  /\ noteIdx \in 1..Len(pages)
  /\ currentPageIndex \in 1..Len(pages)

\* the last of three pages was deleted and the index was clamped onto the new
\* last page
C18_Witness ==
  /\ lastOp = "deletePage"
  /\ Len(pages) = 2
  /\ currentPageIndex = 2
  /\ noteIdx = 2

C22_FadeThenDelete ==
  /\ [][/\ lastOp' \in {"eraseFirst", "eraseMore"} =>
             /\ strokes' = strokes
             /\ er'.removed # er.removed
             /\ (er'.removed \ er.removed) \subseteq (fading' \cap StrokeIds(strokes'))
        /\ lastOp' = "fadeTimer" =>
             /\ Cardinality(StrokeIds(strokes) \ StrokeIds(strokes')) <= 1
             /\ (StrokeIds(strokes) \ StrokeIds(strokes')) \subseteq fading
             /\ (StrokeIds(strokes) \ StrokeIds(strokes')) \cap fading' = {}]_vars
  /\ \A id \in 1..MaxStrokeIds : (id \in fading) ~> (id \notin fading)

\* a fade timer has just removed an erased stroke and no mark is left
C22_Witness ==
  /\ lastOp = "fadeTimer"
  /\ erased # {}
  /\ erased \cap StrokeIds(strokes) = {}
  /\ fading = {}

\* auxiliary: a stroke is marked fading exactly while its timer is pending
C22_MarkedWhileTimerPending == fading = fadeTimers

\* C23: an eraser step pushes a history snapshot only as the first reported hit
\* of its gesture, and only when it makes at least one stroke start to fade; a
\* gesture that touches nothing but strokes already fading pushes none.
C23_OneSnapshotPerEraserGesture ==
  [][(lastOp' \in {"eraseNone", "eraseFirst", "eraseMore", "moveEraser"} /\ hist' # hist) =>
       (er.removed = {} /\ fading' # fading)]_vars

\* auxiliary: within a gesture that has already reported a hit no further
\* snapshot is pushed
C23_NoSecondSnapshot ==
  [][(lastOp' \in {"eraseNone", "eraseFirst", "eraseMore", "moveEraser"} /\ er.removed # {})
       => hist' = hist]_vars

\* C24: within one eraser gesture the id set passed to each erase callback
\* contains the set passed to the one before; a stroke the gesture has already
\* reported is not among the new ids of a later callback; and a fade timer is
\* started only for a stroke that is neither marked fading nor already reported
\* in this gesture.
C24_CumulativeErase ==
  [][(lastOp' \in {"eraseNone", "eraseFirst", "eraseMore"} /\ er'.removed # er.removed) =>
       /\ er.removed \subseteq er'.removed
       /\ (removedSession' \ removedSession) \cap er.removed = {}
       /\ er'.removed \subseteq removedSession'
       /\ (fadeTimers' \ fadeTimers) \cap (fading \cup er.removed) = {}
       /\ fadeTimers \subseteq fadeTimers']_vars

\* the second callback of a gesture has reported both strokes of the page and
\* started the timer of the second one only
C24_Witness ==
  /\ lastOp = "eraseMore"
  /\ Cardinality(er.removed) = 2
  /\ removedSession = er.removed
  /\ fadeTimers = er.removed

\* C25: the autosave timer fires once after the last edit: when it has fired
\* and handed onUpdate the live stroke list, written into the page at
\* currentPageIndex, no autosave timer is pending until the next edit.
C25_AutosaveFiresOnce ==
  [][lastOp' = "autoSave" =>
       /\ pages'[currentPageIndex].strokes = strokes
       /\ \A i \in DOMAIN pages : i # currentPageIndex => pages'[i] = pages[i]
       /\ noteIdx' = currentPageIndex
       /\ ~autoSaveTimer']_vars

\* auxiliary: the autosave hands onUpdate the live stroke list, written into
\* the page at currentPageIndex and nowhere else, and every change of the
\* stroke list or of the stroke in progress leaves a timer pending
C25_AutosavePayload ==
  [][/\ lastOp' = "autoSave" =>
          /\ pages'[currentPageIndex].strokes = strokes
          /\ \A i \in DOMAIN pages : i # currentPageIndex => pages'[i] = pages[i]
          /\ noteIdx' = currentPageIndex
     /\ (mounted' /\ (strokes' # strokes \/ currentStroke' # currentStroke)) => autoSaveTimer']_vars

\* C26: a pointer-up that ends a lasso leaves strokes and history unchanged and
\* clears the path; with fewer than 3 points no selection is published; with 3
\* or more points the published strokeIds are exactly the non-eraser strokes
\* with at least one point inside the polygon, the bounding box is the smallest
\* axis-aligned box around all points of those strokes, and the selection is
\* null when no stroke qualifies.
C26_LassoFinalisation ==
  [][((\E pid \in MousePen : UpSelector(pid)) /\ ~Dragging /\ Len(selTool.path) > 0) =>
       LET path == selTool.path
           chosen == {j \in DOMAIN strokes :
                        /\ strokes[j].tool # "eraser"
                        /\ \E k \in DOMAIN strokes[j].points :
                              isPointInPolygon(strokes[j].points[k], path)}
           pts == UNION {{strokes[j].points[k] : k \in DOMAIN strokes[j].points} : j \in chosen}
       IN /\ strokes' = strokes
          /\ hist' = hist
          /\ selectionPath' = <<>>
          /\ selTool'.path = <<>>
          /\ selTool'.selection = selection'
          /\ (Len(path) < 3 \/ chosen = {}) => selection' = <<>>
          /\ (Len(path) >= 3 /\ chosen # {}) =>
               /\ selection' # <<>>
               /\ selection'[1].strokeIds = {strokes[j].id : j \in chosen}
               /\ selection'[1].polygon = path
               /\ ~selection'[1].isDragging
               /\ \A q \in pts : /\ selection'[1].boundingBox.minX <= q[1]
                                  /\ q[1] <= selection'[1].boundingBox.maxX
                                  /\ selection'[1].boundingBox.minY <= q[2]
                                  /\ q[2] <= selection'[1].boundingBox.maxY
               /\ \E q \in pts : q[1] = selection'[1].boundingBox.minX
               /\ \E q \in pts : q[1] = selection'[1].boundingBox.maxX
               /\ \E q \in pts : q[2] = selection'[1].boundingBox.minY
               /\ \E q \in pts : q[2] = selection'[1].boundingBox.maxY]_vars

\* the lasso closed on the square has selected the dot, the stroke that is
\* partly inside and the three-point stroke, but not the eraser-tool stroke
C26_Witness ==
  /\ lastOp = "lassoSelect"
  /\ selection # <<>>
  /\ selection[1].strokeIds = {1, 2, 5}
  /\ selection[1].boundingBox = [minX |-> 1, minY |-> 3, maxX |-> 15, maxY |-> 9]
  /\ selectionPath = <<>>

\* auxiliary: lassos of fewer than 3 points and lassos around nothing are reached
C26_WitnessCancel == lastOp = "lassoCancel" /\ selection = <<>> /\ selTool.path = <<>>
C26_WitnessEmpty == lastOp = "lassoEmpty" /\ selection = <<>> /\ selTool.path = <<>>

\* C27: a selector pointer-down with an existing selection enters drag mode and
\* keeps the selection when the point is inside the delta-adjusted bounding box,
\* boundary included; otherwise it discards the selection and starts a lasso
\* path holding only that point; neither changes a stroke or pushes a history
\* snapshot; and drag mode and lasso mode never hold together.
C27_SelectorModeChoice ==
  /\ [][\A pid \in MouseAndPen, c \in ModePts :
          (DownSelector(pid, c) /\ selection # <<>>) =>
            LET sel == selection[1]
                point == toCanvasPoint(c)
                dx == IF sel.dragDelta = <<>> THEN 0 ELSE sel.dragDelta[1][1]
                dy == IF sel.dragDelta = <<>> THEN 0 ELSE sel.dragDelta[1][2]
                inside == /\ sel.boundingBox.minX + dx <= point[1]
                          /\ point[1] <= sel.boundingBox.maxX + dx
                          /\ sel.boundingBox.minY + dy <= point[2]
                          /\ point[2] <= sel.boundingBox.maxY + dy
            IN /\ strokes' = strokes
               /\ hist' = hist
               /\ inside => /\ selection' # <<>>
                             /\ selection'[1].isDragging
                             /\ selection'[1].dragStart = <<point>>
                             /\ selection'[1].strokeIds = sel.strokeIds
                             /\ selection'[1].boundingBox = sel.boundingBox
                             /\ selection'[1].polygon = sel.polygon
                             /\ selectionPath' = <<>>
                             /\ selTool'.path = <<>>
               /\ ~inside => /\ selection' = <<>>
                              /\ selTool'.selection = <<>>
                              /\ selectionPath' = <<point>>
                              /\ selTool'.path = <<point>>]_vars
  /\ [](~(Dragging /\ Len(selTool.path) > 0))
  /\ [](~(selection # <<>> /\ selection[1].isDragging /\ Len(selectionPath) > 0))

\* a pointer-down on the right edge of the selection's box has started a drag
C27_Witness ==
  /\ lastOp = "downDrag"
  /\ selection # <<>>
  /\ selection[1].isDragging
  /\ selection[1].dragStart # <<>>
  /\ selection[1].dragStart[1][1] = selection[1].boundingBox.maxX
  /\ selection[1].strokeIds = {1}

\* auxiliary: a pointer-down outside the box has replaced the selection by a
\* lasso of one point after a drag that moved the stroke
C27_WitnessLasso ==
  /\ lastOp = "downLasso"
  /\ selection = <<>>
  /\ Len(selectionPath) = 1
  /\ Len(hist[1].history) > 0
  /\ Len(strokes) = 1

\* auxiliary: a second pointer has come down inside the box while the first
\* was dragging it by a non-zero delta
C27_WitnessDelta ==
  /\ lastOp = "downDrag"
  /\ Cardinality(down) = 2

\* the scale a pending zoom frame asks for
C28_NextScale ==
  clamp((pinch[1].initialScale * raf[1].distance) \div pinch[1].initialDistance,
        MIN_SCALE, MAX_SCALE)
C28_SnappingZoomFrame ==
  /\ RafFire
  /\ raf[1].kind # "middle"
  /\ pinch[1].gestureType = "zoom"
  /\ C28_NextScale <= 105
  /\ viewport.scale <= 105

\* C28 as stated: a zoom frame whose new scale and previous scale are both at
\* most 1.05 sets the viewport to exactly scale 1 with zero offsets.
C28_SnapToExactlyOne ==
  [][C28_SnappingZoomFrame => viewport' = [scale |-> 100, offsetX |-> 0, offsetY |-> 0]]_vars

\* C28 amended: such a frame zeroes both offsets and sets the scale to the
\* larger of 1 and the new scale, so the scale is exactly 1 only when the new
\* scale is at most 1.
C28_SnapToOneOrAbove ==
  [][C28_SnappingZoomFrame =>
       /\ viewport'.offsetX = 0
       /\ viewport'.offsetY = 0
       /\ (C28_NextScale <= 100 => viewport'.scale = 100)
       /\ (C28_NextScale > 100 => viewport'.scale = C28_NextScale)]_vars

\* a snapping zoom frame has left the scale strictly between 1 and 1.05
C28_Witness ==
  /\ lastOp = "rafZoom"
  /\ viewport.scale > 100
  /\ viewport.scale <= 105
  /\ viewport.offsetX = 0
  /\ viewport.offsetY = 0

\* auxiliary: a snapping zoom frame that closed the fingers has landed on scale 1
C28_WitnessOne ==
  /\ lastOp = "rafZoom"
  /\ viewport = [scale |-> 100, offsetX |-> 0, offsetY |-> 0]
  /\ pinch # <<>>
  /\ Len(cache) = 2
  /\ Abs(cache[1].x - cache[2].x) < pinch[1].initialDistance

\* C29: the gesture midpoint is the arithmetic mean of the two cached pointer
\* positions, both when the pinch starts and on every move that schedules a
\* viewport update (compared doubled, within the rounding of one halving).
C29_MidpointIsMean ==
  /\ (lastOp = "downPinch" =>
        /\ Abs(2 * pinch[1].initialMidX - (cache[1].x + cache[2].x)) <= 1
        /\ Abs(2 * pinch[1].initialMidY - (cache[1].y + cache[2].y)) <= 1)
  /\ (lastOp = "pinchSchedule" =>
        /\ Abs(2 * raf[1].midX - (cache[1].x + cache[2].x)) <= 1
        /\ Abs(2 * raf[1].midY - (cache[1].y + cache[2].y)) <= 1
        /\ Abs(2 * raf[1].dmx - (cache[1].x + cache[2].x - pinchMid2[1][1])) <= 2
        /\ Abs(2 * raf[1].dmy - (cache[1].y + cache[2].y - pinchMid2[1][2])) <= 2)

\* C30: releasing a pointer removes it from the pointer cache; when fewer than
\* two pointers remain cached the pinch state is cleared and the pending
\* viewport frame is cancelled; the release itself leaves the viewport as it
\* was; and a pinch frame is only ever pending while a pinch with two cached
\* pointers is under way, so none is applied after the release.
C30_ReleaseEndsGesture ==
  /\ [][\A pid \in down :
          (down' = down \ {pid} /\ ~Ignored(pid) /\ ~MiddlePanOf(pid)) =>
            /\ \A i \in DOMAIN cache' : cache'[i].id # pid
            /\ \A i \in DOMAIN cache : cache[i].id # pid =>
                  \E j \in DOMAIN cache' : cache'[j] = cache[i]
            /\ Len(cache') < 2 => (pinch' = <<>> /\ raf' = <<>>)
            /\ Len(cache') >= 2 => pinch' = pinch
            /\ viewport' = viewport]_vars
  /\ []((raf # <<>> /\ raf[1].kind = "pinch") => (pinch # <<>> /\ Len(cache) >= 2))

\* a finger has been lifted from a pinch that had already zoomed: one pointer
\* is left in the cache, the pinch state and the frame are gone, and the zoomed
\* viewport is kept
C30_Witness ==
  /\ lastOp = "upTouchPriority"
  /\ Len(cache) = 1
  /\ pinch = <<>>
  /\ raf = <<>>
  /\ viewport.scale > 100

\* C31: pinch state exists, and a pinch frame is pending, only while at least
\* two touch pointers are cached: a pen or a mouse together with one touch
\* never establishes a pinch.
C31_PinchNeedsTwoTouches ==
  (pinch # <<>> \/ (raf # <<>> /\ raf[1].kind = "pinch")) =>
    Cardinality({i \in DOMAIN cache : IsTouch(cache[i].id)}) >= 2

\* C32: a failed persist leaves the in-memory notes as they were and is not
\* recorded as persisted, and a persistNow issued while nothing is in flight
\* and storage differs from the notes in memory starts a write.
C32_FailedPersistIsRetried ==
  /\ [][lastOp' = "persistFailed" =>
          /\ storeNotes' = storeNotes
          /\ lastPersistSignature' = lastPersistSignature]_vars
  /\ [][(persistNow /\ inFlight = <<>> /\ storeNotes # NullNotes
          /\ dbNotes # computeSignature(storeNotes)) => inFlight' # <<>>]_vars

\* C33: once no persist is in flight and none is scheduled, storage holds the
\* latest in-memory notes.
C33_StorageMatchesMemoryAtRest ==
  (inFlight = <<>> /\ ~persistTimeout /\ storeNotes # NullNotes) =>
    dbNotes = computeSignature(storeNotes)

\* C34: a snapshot pushed by a commit, a drag, a recolouring or a selection
\* delete contains no stroke that is fading at that moment, and an undo never
\* brings back a stroke whose fade timer has already removed it unless the
\* undone action is the erasure itself.
C34_SnapshotsExcludeFadingStrokes ==
  [][(lastOp' \in {"commit", "bake", "color", "delete"}) =>
       \A p \in PageIdSet :
         Len(hist'[p].history) > Len(hist[p].history) =>
           StrokeIds(Last(hist'[p].history)) \cap fading = {}]_vars

\* C35: deletePage removes exactly the current page: the note has one page
\* fewer, the deleted id is gone, and every other page is still there under its
\* own id with the strokes it had.
C35_DeleteRemovesOnlyCurrentPage ==
  [][deletePage =>
       /\ Len(pages') = Len(pages) - 1
       /\ \A j \in DOMAIN pages' : pages'[j].id # pages[noteIdx].id
       /\ \A i \in DOMAIN pages \ {noteIdx} :
            \E j \in DOMAIN pages' : /\ pages'[j].id = pages[i].id
                                      /\ pages'[j].strokes = pages[i].strokes]_vars

\* C36: after duplicatePage the note has one page more, the page after the
\* one that was current is a new page with a fresh id and a copy of the live
\* strokes, and it is the active page.
C36_DuplicateInsertsCopy ==
  [][duplicatePage =>
       /\ Len(pages') = Len(pages) + 1
       /\ pages'[noteIdx + 1].id \notin {pages[i].id : i \in DOMAIN pages}
       /\ pages'[noteIdx + 1].strokes = strokes
       /\ currentPageIndex' = noteIdx + 1
       /\ strokes' = strokes]_vars

\* C37: every stroke id of a published selection belongs to a stroke of the
\* live stroke list.
C37_SelectionRefersToLiveStrokes ==
  selection # <<>> => selection[1].strokeIds \subseteq StrokeIds(strokes)

\* C38: once every pointer has been released, neither drawing tool retains an
\* in-progress stroke and the workspace's currentStroke is null.
C38_NoStrokeSurvivesPointerUp ==
  down = {} => (penCur = <<>> /\ hlCur = <<>> /\ currentStroke = <<>>)

\* ids of the strokes stored on the pages other than the active one
C39_OtherPagesIds ==
  UNION {StrokeIds(pages[i].strokes) : i \in DOMAIN pages \ {currentPageIndex}}

C40_CacheHoldsDownPointers ==
  /\ {cache[i].id : i \in DOMAIN cache} = {pid \in down : ~MiddlePanOf(pid)}
  /\ down = {} => (cache = <<>> /\ pinch = <<>>)

====
